---------------------------- MODULE Spec2Model ----------------------------
(***************************************************************************)
(* Verification model of the honeypot detection and session engine          *)
(* (src/app/services/detector.py, src/app/intelligence_extractor.py,        *)
(* src/app/session_manager.py, src/app/main.py).                            *)
(*                                                                         *)
(* Texts are TLA+ strings handled character by character (Len, SubSeq), so  *)
(* that substring tests, regular expressions, lower-casing and tokenising   *)
(* are computed the way the Python code computes them.                      *)
(*                                                                         *)
(* Scores are fixed-point integers in hundredths of a score point (the      *)
(* code's floats are multiples of 0.5 and of 0.3 * 0.5 = 0.15); a           *)
(* confidence is in thousandths, so that cumulative / 10 is exact.          *)
(***************************************************************************)
EXTENDS Integers, Sequences, FiniteSets, Bags, TLC

(***************************************************************************)
(* Characters and strings                                                   *)
(***************************************************************************)
UpperChars == "ABCDEFGHIJKLMNOPQRSTUVWXYZ"
LowerChars == "abcdefghijklmnopqrstuvwxyz"
DigitChars == "0123456789"
SixToNine == {"6", "7", "8", "9"}
\* Python's \s for ASCII text (\v has no TLA+ escape and occurs in no text here)
SpaceChars == " \t\n\r\f"
\* Python's \w for ASCII text
WordChars == "abcdefghijklmnopqrstuvwxyzABCDEFGHIJKLMNOPQRSTUVWXYZ0123456789_"
AlnumChars == "abcdefghijklmnopqrstuvwxyzABCDEFGHIJKLMNOPQRSTUVWXYZ0123456789"
AlphaChars == "abcdefghijklmnopqrstuvwxyzABCDEFGHIJKLMNOPQRSTUVWXYZ"

Ch(s, i) == SubSeq(s, i, i)

\* the function f, written out as a table of its values
Table(f) == f @@ <<>>

\* the set of the characters of a string
Chars(s) == {Ch(s, i) : i \in 1..Len(s)}

UpperSet == Chars(UpperChars)
DigitSet == Chars(DigitChars)
SpaceSet == Chars(SpaceChars)
WordSet == Chars(WordChars)
AlnumSet == Chars(AlnumChars)
AlphaSet == Chars(AlphaChars)

LowerOf == Table([c \in UpperSet |-> Ch(LowerChars, CHOOSE i \in 1..Len(UpperChars) : Ch(UpperChars, i) = c)])

\* str.lower() on one character
LowerChar(c) == IF c \in UpperSet THEN LowerOf[c] ELSE c

RECURSIVE LowerRange(_, _, _)
LowerRange(s, lo, hi) ==
    IF lo > hi THEN ""
    ELSE IF lo = hi THEN LowerChar(Ch(s, lo))
    ELSE LowerRange(s, lo, (lo + hi) \div 2) \o LowerRange(s, (lo + hi) \div 2 + 1, hi)

\* str.lower()
Lower(s) == LowerRange(s, 1, Len(s))

\* Python's  t in s  on strings
Contains(s, t) == \E i \in 1..(Len(s) - Len(t) + 1) : SubSeq(s, i, i + Len(t) - 1) = t

\* any(w in s for w in words)
ContainsAny(s, words) == \E k \in 1..Len(words) : Contains(s, words[k])

Min(a, b) == IF a <= b THEN a ELSE b
Max(a, b) == IF a >= b THEN a ELSE b

SeqToSet(q) == {q[i] : i \in 1..Len(q)}

(***************************************************************************)
(* The message texts of the model.                                          *)
(***************************************************************************)
T_scam == "URGENT: Your account will be BLOCKED today. Verify immediately. Call 9876543210, send to user@ybl"
T_advice == "Please never share your OTP with anyone calling from the bank"
T_hello == "hello"
T_kyc == "Kindly verify your kyc"
T_noclick == "don't click unknown links"
T_nevershare == "never share OTP"
T_pay == "Share otp now at http://evil.xyz/pay or pay to 123456789012"
T_test == "Your bank account will be blocked today. Verify immediately or face legal action!"

AllTexts == {T_scam, T_advice, T_hello, T_kyc, T_noclick, T_nevershare, T_pay, T_test}

(***************************************************************************)
(* Regular expressions (Python's re: greedy, backtracking, leftmost).       *)
(* A pattern is a sequence of items:                                        *)
(*   Cls(chars, lo, hi)   lo..hi characters of the set (hi = -1: no max)    *)
(*   NCls(chars, lo, hi)  the negated class                                 *)
(*   WB                   \b                                                *)
(*   Alt(<<"a", "b">>)    a capturing group of literal alternatives         *)
(*   Lit("abc")           a literal string (a pattern of one item)          *)
(* A match result is [e |-> position after the match (0: no match),         *)
(*                    cap |-> the text of the capturing group, if any].     *)
(***************************************************************************)
Cls(chars, lo, hi) == [k |-> "cls", cs |-> chars, neg |-> FALSE, lo |-> lo, hi |-> hi, alts |-> <<>>]
NCls(chars, lo, hi) == [k |-> "cls", cs |-> chars, neg |-> TRUE, lo |-> lo, hi |-> hi, alts |-> <<>>]
WB == [k |-> "wb", cs |-> {}, neg |-> FALSE, lo |-> 0, hi |-> 0, alts |-> <<>>]
Alt(alts) == [k |-> "alt", cs |-> {}, neg |-> FALSE, lo |-> 0, hi |-> 0, alts |-> alts]

\* a literal string
Lit(s) == <<[k |-> "lit", cs |-> {}, neg |-> FALSE, lo |-> 0, hi |-> 0, alts |-> <<s>>]>>
\* .  (any character but a newline), lo..hi times
Dot(lo, hi) == NCls({"\n"}, lo, hi)

NoMatch == [e |-> 0, cap |-> ""]

\* does character c match item it (ic: re.IGNORECASE)
CharOk(c, it, ic) ==
    LET in == c \in it.cs \/ (ic /\ LowerChar(c) \in it.cs)
    IN  IF it.neg THEN ~in ELSE in

IsWordAt(text, p) == p >= 1 /\ p <= Len(text) /\ Ch(text, p) \in WordSet

\* \b between positions p-1 and p
AtBoundary(text, p) == IsWordAt(text, p - 1) # IsWordAt(text, p)

\* is literal w at position p of the text
LitAt(w, text, p, ic) ==
    /\ p + Len(w) - 1 <= Len(text)
    /\ IF ic THEN Lower(SubSeq(text, p, p + Len(w) - 1)) = Lower(w)
             ELSE SubSeq(text, p, p + Len(w) - 1) = w

SetMin(S) == CHOOSE m \in S : \A o \in S : m <= o
SetMax(S) == CHOOSE m \in S : \A o \in S : m >= o

\* the greedy count: how many characters from p on match the item, up to its hi
RunLen(text, p, it, ic) ==
    LET room == Len(text) - p + 1
        lim == IF it.hi >= 0 THEN Min(it.hi, room) ELSE room
        stops == {n \in 1..lim : ~CharOk(Ch(text, p + n - 1), it, ic)}
    IN  IF stops = {} THEN Max(lim, 0) ELSE SetMin(stops) - 1

\* the counts of a class from the greedy one down to lo, as positions after it
ClassOptions(p, lo, run) ==
    IF run < lo THEN <<>> ELSE [j \in 1..(run - lo + 1) |-> [p |-> p + run - j + 1, cap |-> ""]]

\* the alternatives that are at position p, in their order
AltOptions(p, hits) == [j \in 1..Len(hits) |-> [p |-> p + Len(hits[j]), cap |-> hits[j]]]

\* the ways item it can match at position p, in the order the matcher tries
\* them: the position after the item and the text a capturing group takes
Options(it, text, p, ic) ==
    CASE it.k = "wb" ->
            IF AtBoundary(text, p) THEN <<[p |-> p, cap |-> ""]>> ELSE <<>>
      [] it.k = "lit" ->
            IF LitAt(it.alts[1], text, p, ic)
            THEN <<[p |-> p + Len(it.alts[1]), cap |-> ""]>> ELSE <<>>
      [] it.k = "alt" ->
            AltOptions(p, SelectSeq(it.alts, LAMBDA w : LitAt(w, text, p, ic)))
      [] OTHER -> ClassOptions(p, it.lo, RunLen(text, p, it, ic))

\* way j and the match of the rest after it
Taken(opt, r) == [e |-> r.e, cap |-> opt.cap \o r.cap]

\* the first of the tried ways whose rest matched
FirstMatch(opts, rest, good) ==
    IF good = {} THEN NoMatch ELSE Taken(opts[SetMin(good)], rest[SetMin(good)])

RECURSIVE MatchFrom(_, _, _, _, _)
\* the rest of the pattern after each way of item k
RestOf(items, k, text, ic, opts) ==
    Table([j \in 1..Len(opts) |-> MatchFrom(items, k + 1, text, opts[j].p, ic)])

Matched(rest) == {j \in DOMAIN rest : rest[j].e # 0}

MatchVia(opts, rest) == FirstMatch(opts, rest, Matched(rest))

\* match items[k..] at position p, backtracking over the ways of item k
MatchFrom(items, k, text, p, ic) ==
    IF k > Len(items) THEN [e |-> p, cap |-> ""]
    ELSE MatchVia(Options(items[k], text, p, ic),
                  RestOf(items, k, text, ic, Options(items[k], text, p, ic)))

\* re.search(pattern, text) is not None
Search(items, text, ic) == \E p \in 1..Len(text) : MatchFrom(items, 1, text, p, ic).e # 0

HasAlt(items) == \E k \in 1..Len(items) : items[k].k = "alt"

\* the positions where a non-empty match of the pattern starts
MatchStarts(items, text, ic) == {q \in 1..Len(text) : MatchFrom(items, 1, text, q, ic).e > q}

RECURSIVE FindAllFrom(_, _, _, _, _)
\* pattern.findall(text): the non-overlapping matches left to right; with a
\* capturing group in the pattern the group's text stands for the match
FindAllFrom(items, text, p, ic, starts) ==
    IF \A q \in starts : q < p THEN <<>>
    ELSE LET q == SetMin({x \in starts : x >= p})
             r == MatchFrom(items, 1, text, q, ic)
         IN  <<IF HasAlt(items) THEN r.cap ELSE SubSeq(text, q, r.e - 1)>>
             \o FindAllFrom(items, text, r.e, ic, starts)

FindAll(items, text, ic) == FindAllFrom(items, text, 1, ic, MatchStarts(items, text, ic))

(***************************************************************************)
(* ScamDetector  (src/app/services/detector.py)                             *)
(* Scores are in hundredths: 2.5 is 250.                                    *)
(***************************************************************************)
WEIGHTS_STRUCTURAL == [url |-> 250, upi |-> 300, bank |-> 300, otp_pattern |-> 400, phone |-> 150]
WEIGHT_LINGUISTIC == 50
MAX_LINGUISTIC_SCORE == 200
WEIGHT_CONTEXT_RULE == 300
WEIGHT_SEMANTIC == 300
WEIGHT_HISTORY_MESSAGE == 100
THRESHOLD_SCAM == 600
\* min(3.0, ...) and + 0.5 of _history_score, max(0.0, min(10.0, ...)) of detect
HISTORY_BOOST_CAP == 300
HISTORY_PERSISTENCE == 50
SCORE_MAX == 1000

SEMANTIC_TEMPLATES == <<
    "your account will be blocked",
    "your bank account is suspended",
    "send otp to verify",
    "share otp for verification",
    "claim your prize reward now",
    "you have won a lottery",
    "update kyc immediately",
    "click this link to verify",
    "payment failed pay now",
    "electricity bill unpaid warning",
    "income tax refund pending" >>

\* REGEX_PATTERNS
RE_url_a == Lit("http") \o <<Cls({"s"}, 0, 1)>> \o Lit("://") \o <<NCls(SpaceSet, 1, -1)>>
RE_url_b == Lit("www.") \o <<NCls(SpaceSet, 1, -1)>>
RE_upi == <<Cls(WordSet \cup {".", "-"}, 1, -1)>> \o Lit("@") \o <<Cls(WordSet, 1, -1)>>
RE_bank == <<WB, Cls(DigitSet, 9, 18), WB>>
RE_otp_pattern == <<WB, Cls(DigitSet, 4, 6), WB>>
\* (\+91[\-\s]?)?[6-9]\d{9} : the optional group matches or is skipped
RE_phone_a == Lit("+91") \o <<Cls({"-"} \cup SpaceSet, 0, 1), Cls(SixToNine, 1, 1), Cls(DigitSet, 9, 9)>>
RE_phone_b == <<Cls(SixToNine, 1, 1), Cls(DigitSet, 9, 9)>>
RE_otp_keyword == <<WB, Alt(<<"otp", "code", "pin", "password">>), WB>>

SAFETY_PATTERNS == <<
    Lit("never share") \o <<Dot(0, -1)>> \o Lit("otp"),
    Lit("do not share") \o <<Dot(0, -1)>> \o Lit("otp"),
    Lit("don") \o <<Cls({"'"}, 0, 1)>> \o Lit("t share") \o <<Dot(0, -1)>> \o Lit("otp"),
    Lit("never give") \o <<Dot(0, -1)>> \o Lit("otp"),
    Lit("do not click") \o <<Dot(0, -1)>> \o Lit("link"),
    Lit("bank") \o <<Dot(0, -1)>> \o Lit("never asks"),
    Lit("officials") \o <<Dot(0, -1)>> \o Lit("never ask"),
    Lit("stay safe"),
    Lit("be careful"),
    Lit("not a scam") >>

is_safety_advice(text_lower) ==
    \E k \in 1..Len(SAFETY_PATTERNS) : Search(SAFETY_PATTERNS[k], text_lower, FALSE)

\* Layer 1
_structural_score(text, text_lower) ==
    LET url == Search(RE_url_a, text, FALSE) \/ Search(RE_url_b, text, FALSE)
        upi == Search(RE_upi, text, FALSE)
        bank == /\ Search(RE_bank, text, FALSE)
                /\ ~(Search(RE_phone_a, text, FALSE) \/ Search(RE_phone_b, text, FALSE))
        has_otp_digits == Search(RE_otp_pattern, text, FALSE)
        has_otp_word == Search(RE_otp_keyword, text_lower, FALSE)
        otp == has_otp_word \/ (has_otp_digits /\ Contains(text_lower, "otp"))
    IN  [score |-> (IF url THEN WEIGHTS_STRUCTURAL.url ELSE 0)
                 + (IF upi THEN WEIGHTS_STRUCTURAL.upi ELSE 0)
                 + (IF bank THEN WEIGHTS_STRUCTURAL.bank ELSE 0)
                 + (IF otp THEN WEIGHTS_STRUCTURAL.otp_pattern ELSE 0),
         signals |-> (IF url THEN <<"structural:url_detected">> ELSE <<>>)
                  \o (IF upi THEN <<"structural:upi_detected">> ELSE <<>>)
                  \o (IF bank THEN <<"structural:bank_account_detected">> ELSE <<>>)
                  \o (IF otp THEN <<"structural:otp_request_detected">> ELSE <<>>)]

urgency_words == <<"urgent", "immediately", "now", "verify", "blocked", "suspended",
                   "prize", "reward", "offer", "limited", "expire", "lapse", "kyc">>

\* the words of a list that occur in the text, in list order
HitsFrom(words, text_lower) == SelectSeq(words, LAMBDA w : Contains(text_lower, w))

\* Layer 2
_keyword_score(text_lower) ==
    LET hits == HitsFrom(urgency_words, text_lower)
    IN  [score |-> Min(Len(hits) * WEIGHT_LINGUISTIC, MAX_LINGUISTIC_SCORE),
         signals |-> [i \in 1..Min(Len(hits), 3) |-> "linguistic:" \o hits[i]]]

context_rules == <<
    <<"verify", "link">>, <<"send", "money">>, <<"send", "payment">>, <<"share", "otp">>,
    <<"give", "otp">>, <<"tell", "otp">>, <<"update", "bank">>, <<"click", "link">>,
    <<"confirm", "account">>, <<"verify", "kyc">>, <<"block", "account">>,
    <<"share", "upi">>, <<"give", "upi">>, <<"send", "upi">>, <<"verify", "upi">>,
    <<"share", "id">>, <<"verification", "upi">>, <<"verification", "account">>,
    <<"verification", "otp">>, <<"transfer", "account">>, <<"transfer", "money">>,
    <<"pay", "now">>, <<"send", "amount">> >>

\* the rules both of whose terms occur in the text, in list order
RuleHits(text_lower) ==
    SelectSeq(context_rules, LAMBDA r : Contains(text_lower, r[1]) /\ Contains(text_lower, r[2]))

\* Layer 3
_context_score(text_lower) ==
    LET hits == RuleHits(text_lower)
    IN  [score |-> Len(hits) * WEIGHT_CONTEXT_RULE, signals |-> hits]

(***************************************************************************)
(* Layer 4: TfidfVectorizer(stop_words='english') fitted on the templates,  *)
(* cosine similarity of the message against every template.                 *)
(***************************************************************************)
\* token_pattern (?u)\b\w\w+\b
RE_token == <<WB, Cls(WordSet, 2, -1), WB>>
\* the entries of scikit-learn's English stop-word list that occur in the templates
StopWords == {"your", "will", "be", "is", "to", "for", "now", "you", "have", "this", "bill"}

DropStop(toks) == SelectSeq(toks, LAMBDA t : t \notin StopWords)

\* the analyzer: lower-case, tokenise, drop stop words
Analyze(doc) == DropStop(FindAll(RE_token, Lower(doc), FALSE))

TemplateTokens == Table([j \in 1..Len(SEMANTIC_TEMPLATES) |-> Analyze(SEMANTIC_TEMPLATES[j])])
Vocabulary == UNION {SeqToSet(TemplateTokens[j]) : j \in 1..Len(SEMANTIC_TEMPLATES)}
DocFreq(w) == Cardinality({j \in 1..Len(SEMANTIC_TEMPLATES) : w \in SeqToSet(TemplateTokens[j])})
\* smooth idf  ln((1 + n) / (1 + df)) + 1  for n = 11 templates, in thousandths, by df
IdfMilli == <<2792, 2386, 2099, 1875, 1693, 1539, 1405, 1288, 1182, 1087, 1000>>
Idf == Table([w \in Vocabulary |-> IdfMilli[DocFreq(w)]])

CountOf(w, toks) == Cardinality({i \in 1..Len(toks) : toks[i] = w})
\* the tf-idf weight of vocabulary word w in a token list (before normalisation)
Weight(w, toks) == CountOf(w, toks) * Idf[w]

\* sum over the words of set ws of Weight(w, a) * Weight(w, b): the size of the
\* bag that holds every word as often as its product
SumOver(ws, a, b) ==
    BagCardinality([w \in {v \in ws : Weight(v, a) * Weight(v, b) > 0}
                      |-> Weight(w, a) * Weight(w, b)])

\* cosine(a, b) > 0.6, i.e. dot^2 / (|a|^2 |b|^2) > 0.36, computed on values scaled
\* down by 1000 and as a product of two ratios so that it stays within 32 bits
CosineAbove(a, b) ==
    LET dot == SumOver(Vocabulary, a, b) \div 1000
        na == SumOver(Vocabulary, a, a) \div 1000
        nb == SumOver(Vocabulary, b, b) \div 1000
    IN  /\ dot > 0 /\ na > 0 /\ nb > 0
        /\ ((dot * 10000) \div na) * ((dot * 10000) \div nb) > 36000000

_semantic_score(text_lower) ==
    IF \A i \in 1..Len(text_lower) : Ch(text_lower, i) \in SpaceSet
    THEN [score |-> 0, signals |-> <<>>]
    ELSE LET toks == Analyze(text_lower)
         IN  IF \E j \in 1..Len(SEMANTIC_TEMPLATES) : CosineAbove(toks, TemplateTokens[j])
             THEN [score |-> WEIGHT_SEMANTIC, signals |-> <<"semantic:match">>]
             ELSE [score |-> 0, signals |-> <<>>]

suspicious_words_hist == <<"details", "bank", "otp", "link", "money">>

\* any(w in msg.lower() for w in suspicious_words_hist), for every text of the model
SuspiciousTable == Table([t \in AllTexts |-> ContainsAny(Lower(t), suspicious_words_hist)])

\* Layer 5
_history_score(history) ==
    IF history = <<>> THEN [score |-> 0, signals |-> <<>>]
    ELSE LET suspicious_count == Cardinality({i \in 1..Len(history) : SuspiciousTable[history[i]]})
             persistent == Len(history) > 3
         IN  [score |-> (IF suspicious_count > 0
                         THEN Min(HISTORY_BOOST_CAP, suspicious_count * WEIGHT_HISTORY_MESSAGE)
                         ELSE 0)
                      + (IF persistent THEN HISTORY_PERSISTENCE ELSE 0),
              signals |-> (IF suspicious_count > 0 THEN <<"history:suspicious_context">> ELSE <<>>)
                       \o (IF persistent THEN <<"history:persistence">> ELSE <<>>)]

\* the layers that read the text only (layers 1 to 4)
TextLayers(text) ==
    LET text_lower == Lower(text)
    IN  [safety |-> is_safety_advice(text_lower),
         structural |-> _structural_score(text, text_lower),
         linguistic |-> _keyword_score(text_lower),
         contextual |-> _context_score(text_lower),
         semantic |-> _semantic_score(text_lower)]

(***************************************************************************)
(* IntelligenceExtractor  (src/app/intelligence_extractor.py)               *)
(* Every pattern is compiled with re.IGNORECASE.  A Python list is a        *)
(* sequence; list(set(...)) is a sequence without repetition, in the one    *)
(* order SetToSeq fixes (Python's set order is arbitrary; no statement      *)
(* below reads the order).                                                  *)
(***************************************************************************)
RECURSIVE SetToSeq(_)
SetToSeq(S) ==
    IF S = {} THEN <<>>
    ELSE LET v == CHOOSE e \in S : TRUE IN <<v>> \o SetToSeq(S \ {v})

\* list(set(q))
Dedup(q) == SetToSeq(SeqToSet(q))

UpiLocalChars == AlnumSet \cup {".", "_", "-"}
SepChars == {"-"} \cup SpaceSet

PATTERNS == [
    bank_accounts |-> <<
        <<WB, Cls(DigitSet, 9, 18), WB>>,
        <<WB, Cls(DigitSet, 4, 4), Cls(SepChars, 0, 1), Cls(DigitSet, 4, 4),
          Cls(SepChars, 0, 1), Cls(DigitSet, 4, 4), Cls(SepChars, 0, 1),
          Cls(DigitSet, 0, 6), WB>> >>,
    upi_ids |-> <<
        <<Cls(UpiLocalChars, 1, -1)>> \o Lit("@") \o <<Cls(AlnumSet, 1, -1)>>,
        <<Cls(UpiLocalChars, 1, -1)>> \o Lit("@ybl") \o <<WB>>,
        <<Cls(UpiLocalChars, 1, -1)>> \o Lit("@paytm") \o <<WB>>,
        <<Cls(UpiLocalChars, 1, -1)>> \o Lit("@okicici") \o <<WB>>,
        <<Cls(UpiLocalChars, 1, -1)>> \o Lit("@oksbi") \o <<WB>>,
        <<Cls(UpiLocalChars, 1, -1)>> \o Lit("@okaxis") \o <<WB>>,
        <<Cls(UpiLocalChars, 1, -1)>> \o Lit("@okhdfcbank") \o <<WB>>,
        <<Cls(UpiLocalChars, 1, -1)>> \o Lit("@upi") \o <<WB>>,
        <<Cls(UpiLocalChars, 1, -1)>> \o Lit("@apl") \o <<WB>>,
        <<Cls(UpiLocalChars, 1, -1)>> \o Lit("@ibl") \o <<WB>>,
        <<Cls(UpiLocalChars, 1, -1)>> \o Lit("@sbi") \o <<WB>> >>,
    phone_numbers |-> <<
        Lit("+91") \o <<Cls(SepChars, 0, 1), Cls(DigitSet, 10, 10)>>,
        <<WB>> \o Lit("91") \o <<Cls(DigitSet, 10, 10), WB>>,
        <<WB, Cls(SixToNine, 1, 1), Cls(DigitSet, 9, 9), WB>>,
        Lit("+") \o <<Cls(DigitSet, 1, 3), Cls(SepChars, 0, 1), Cls(DigitSet, 10, 12)>> >>,
    phishing_links |-> <<
        Lit("http") \o <<Cls({"s"}, 0, 1)>> \o Lit("://") \o <<NCls(SpaceSet \cup {"<", ">", "\"", "'"}, 1, -1)>>,
        Lit("www.") \o <<NCls(SpaceSet \cup {"<", ">", "\"", "'"}, 1, -1)>>,
        Lit("bit.ly/") \o <<Cls(AlnumSet, 1, -1)>>,
        Lit("tinyurl.com/") \o <<Cls(AlnumSet, 1, -1)>>,
        <<Cls(AlnumSet \cup {"-"}, 1, -1)>> \o Lit(".")
            \o <<Alt(<<"xyz", "tk", "ml", "ga", "cf", "top", "click", "link", "online",
                       "site", "website">>),
                 NCls(SpaceSet, 0, -1)>> >>,
    email_addresses |-> <<
        <<Cls(AlnumSet \cup {".", "_", "%", "+", "-"}, 1, -1)>> \o Lit("@") \o <<Cls(AlnumSet \cup {".", "-"}, 1, -1)>>
            \o Lit(".") \o <<Cls(AlphaSet, 2, -1)>> >> ]

SUSPICIOUS_KEYWORDS == <<
    "urgent", "immediately", "today", "now", "asap", "hurry",
    "deadline", "expire", "last chance", "final warning",
    "blocked", "suspended", "frozen", "deactivated", "terminated",
    "legal action", "police", "arrest", "court", "lawsuit",
    "otp", "pin", "cvv", "password", "verify", "kyc",
    "transfer", "refund", "cashback",
    "won", "winner", "lottery", "prize", "reward", "congratulations",
    "rbi", "income tax", "government", "bank manager", "customer care" >>

WHITELIST_DOMAINS == <<
    "google.com", "microsoft.com", "apple.com", "facebook.com", "twitter.com",
    "linkedin.com", "amazon.in", "flipkart.com", "paytm.com", "sbi.co.in",
    "hdfcbank.com", "icicibank.com" >>

_is_whitelisted_url(url) ==
    \E k \in 1..Len(WHITELIST_DOMAINS) : Search(Lit(WHITELIST_DOMAINS[k]), url, TRUE)

\* the set of all matches of all the patterns of one category
_extract_pattern_matches(text, patterns) ==
    UNION {SeqToSet(FindAll(patterns[k], text, TRUE)) : k \in 1..Len(patterns)}

RECURSIVE RemoveFrom(_, _, _)
RemoveFrom(s, chars, i) ==
    IF i > Len(s) THEN ""
    ELSE (IF Ch(s, i) \in chars THEN "" ELSE Ch(s, i)) \o RemoveFrom(s, chars, i + 1)
\* re.sub(r"[\s-]", "", s)
StripSeparators(s) == RemoveFrom(s, SepChars, 1)

StartsWith(s, t) == Len(s) >= Len(t) /\ SubSeq(s, 1, Len(t)) = t

\* faulty variant: no +91 prefix is added
clean_without_prefix(phone) == StripSeparators(phone)

_clean_phone_number(phone) ==
    LET cleaned == StripSeparators(phone)
    IN  IF Len(cleaned) = 10 /\ Ch(cleaned, 1) \in SixToNine THEN "+91" \o cleaned
        ELSE IF Len(cleaned) = 12 /\ StartsWith(cleaned, "91") THEN "+" \o cleaned
        ELSE cleaned

\* faulty variant: the keywords are looked up in the text as given, not in
\* text.lower()
keywords_case_sensitive(text) == HitsFrom(SUSPICIOUS_KEYWORDS, text)

_extract_suspicious_keywords(text) == HitsFrom(SUSPICIOUS_KEYWORDS, Lower(text))

RECURSIVE BankFilter(_)
\* the loop over bank_matches of extract_from_message
BankFilter(matches) ==
    IF matches = <<>> THEN <<>>
    ELSE LET cleaned == StripSeparators(Head(matches))
         IN  (IF /\ 9 <= Len(cleaned) /\ Len(cleaned) <= 18
                 /\ ~(Len(cleaned) = 10 /\ Ch(cleaned, 1) \in SixToNine)
              THEN <<cleaned>> ELSE <<>>)
             \o BankFilter(Tail(matches))

RECURSIVE LinkFilter(_)
LinkFilter(links) ==
    IF links = <<>> THEN <<>>
    ELSE (IF _is_whitelisted_url(Head(links)) THEN <<>> ELSE <<Head(links)>>)
         \o LinkFilter(Tail(links))

EmptyIntelligence ==
    [bankAccounts |-> <<>>, upiIds |-> <<>>, phishingLinks |-> <<>>,
     phoneNumbers |-> <<>>, suspiciousKeywords |-> <<>>, emailAddresses |-> <<>>]

Categories == DOMAIN EmptyIntelligence

extract_from_message(text) ==
    LET phones == SetToSeq(_extract_pattern_matches(text, PATTERNS.phone_numbers))
    IN  [bankAccounts |-> BankFilter(SetToSeq(_extract_pattern_matches(text, PATTERNS.bank_accounts))),
         upiIds |-> SetToSeq(_extract_pattern_matches(text, PATTERNS.upi_ids) \ {"@"}),
         phoneNumbers |-> [i \in 1..Len(phones) |-> _clean_phone_number(phones[i])],
         phishingLinks |-> LinkFilter(SetToSeq(_extract_pattern_matches(text, PATTERNS.phishing_links))),
         emailAddresses |-> SetToSeq(_extract_pattern_matches(text, PATTERNS.email_addresses)),
         suspiciousKeywords |-> _extract_suspicious_keywords(text)]

\* IntelligenceExtractor._merge_intelligence: target.x.extend(source.x)
ExtendIntelligence(target, source) == [c \in Categories |-> target[c] \o source[c]]

\* layers 1 to 4 of every text of the model, computed once
LayerTable == Table([t \in AllTexts |-> TextLayers(t)])

\* faulty variant: the total is not clamped
scoring_unclamped(L, hist) ==
    LET total == L.structural.score + L.linguistic.score + L.contextual.score
                 + L.semantic.score + hist.score
    IN  IF L.safety
        THEN [is_scam |-> FALSE, score |-> 0, signals |-> <<"safety_advice_detected">>]
        ELSE [is_scam |-> total >= THRESHOLD_SCAM,
              score |-> total,
              signals |-> L.structural.signals \o L.linguistic.signals \o L.contextual.signals
                          \o L.semantic.signals \o hist.signals]

\* the final scoring and the decision of ScamDetector.detect, from the layers L of
\* the text and the history layer hist
final_scoring(L, hist) ==
    LET total == L.structural.score + L.linguistic.score + L.contextual.score
                 + L.semantic.score + hist.score
        total_score == Max(0, Min(SCORE_MAX, total))
    IN  IF L.safety
        THEN [is_scam |-> FALSE, score |-> 0, signals |-> <<"safety_advice_detected">>]
        ELSE [is_scam |-> total_score >= THRESHOLD_SCAM,
              score |-> total_score,
              signals |-> L.structural.signals \o L.linguistic.signals \o L.contextual.signals
                          \o L.semantic.signals \o hist.signals]

\* ScamDetector.detect(text, history), for a text of the model
detect(text, history) == final_scoring(LayerTable[text], _history_score(history))

\* 10-digit numbers that start with 6 to 9, and the forms a message gives them
PhoneNumbers == {"9876543210", "6123456789", "9198765432"}
PhoneForms(d) == {d, "91" \o d, "+91" \o d, "+91 " \o d, "+91-" \o d}
PhoneMessage(form) == "Call " \o form \o " now"
PhoneMessages == {PhoneMessage(form) : form \in UNION {PhoneForms(d) : d \in PhoneNumbers}}

\* the single-message extraction of every text of the model, computed once
ExtractTable == Table([t \in AllTexts \cup PhoneMessages |-> extract_from_message(t)])

RECURSIVE ExtractHistory(_)
\* the loop over history of extract_from_conversation
ExtractHistory(history) ==
    IF history = <<>> THEN EmptyIntelligence
    ELSE ExtendIntelligence(ExtractHistory(SubSeq(history, 1, Len(history) - 1)),
                            ExtractTable[history[Len(history)]])

\* faulty variant: the texts of conversationHistory are not extracted
extract_current_only(text, history) ==
    [c \in Categories |-> Dedup(ExtractTable[text][c])]

\* IntelligenceExtractor.extract_from_conversation(current_message, history)
extract_from_conversation(text, history) ==
    LET combined == ExtendIntelligence(ExtractHistory(history), ExtractTable[text])
    IN  [c \in Categories |-> Dedup(combined[c])]

(***************************************************************************)
(* Behaviour engine  (src/app/services/behavior_engine.py)                  *)
(* Confidences are in units of 10^-8 (1.0 is 100000000), so that five       *)
(* smoothing steps are exact; aggression scores are in halves.              *)
(***************************************************************************)
CONF_ONE == 100000000
\* scam_score / 10.0, for a score in hundredths
Normalized(scam_score) == scam_score * 100000
\* ALPHA = 0.3, in tenths
ALPHA == 3

\* IntentTracker.__init__ and IntentTracker.reset
NewIntentTracker == [_confidence |-> 0, _turn_count |-> 0]

\* no call of the tracker yet
NoCall ==
    [op |-> "none", scam_score |-> 0, signal_count |-> 0,
     flags |-> [has_otp |-> FALSE, has_upi |-> FALSE, has_threat |-> FALSE, has_urgency |-> FALSE],
     found |-> NewIntentTracker, resets |-> 0]

\* the boosts of IntentTracker.update, each followed by min(1.0, ...)
Boosted(scam_score, signal_count, has_otp, has_upi, has_threat, has_urgency) ==
    LET n0 == Normalized(scam_score)
        n1 == IF has_otp THEN Min(CONF_ONE, n0 + 20000000) ELSE n0
        n2 == IF has_threat THEN Min(CONF_ONE, n1 + 15000000) ELSE n1
        n3 == IF has_upi THEN Min(CONF_ONE, n2 + 10000000) ELSE n2
        n4 == IF has_urgency THEN Min(CONF_ONE, n3 + 5000000) ELSE n3
    IN  Min(CONF_ONE, n4 + signal_count * 2000000)

\* faulty variant: the first update is smoothed against the initial 0.0 as well
intent_update_always_smoothing(tr, scam_score, signal_count, has_otp, has_upi, has_threat, has_urgency) ==
    [_confidence |->
         ((10 - ALPHA) * tr._confidence
            + ALPHA * Boosted(scam_score, signal_count, has_otp, has_upi, has_threat, has_urgency))
         \div 10,
     _turn_count |-> tr._turn_count + 1]

\* IntentTracker.update: the tracker after the call
intent_update(tr, scam_score, signal_count, has_otp, has_upi, has_threat, has_urgency) ==
    [_confidence |->
         IF tr._turn_count = 0
         THEN Boosted(scam_score, signal_count, has_otp, has_upi, has_threat, has_urgency)
         ELSE ((10 - ALPHA) * tr._confidence
                 + ALPHA * Boosted(scam_score, signal_count, has_otp, has_upi, has_threat, has_urgency))
              \div 10,
     _turn_count |-> tr._turn_count + 1]

\* the property IntentTracker.confidence: round(_confidence, 3), in thousandths
\* (a value half-way between two thousandths goes to the even one)
intent_confidence(tr) ==
    LET q == tr._confidence \div 100000
        r == tr._confidence % 100000
    IN  IF r > 50000 \/ (r = 50000 /\ q % 2 = 1) THEN q + 1 ELSE q

LEVEL_GREETING == 0
LEVEL_INFO == 1
LEVEL_SENSITIVE == 2
LEVEL_CRITICAL == 3
LEVEL_THREAT == 4

\* EscalationAnalyzer.__init__
NewEscalationAnalyzer == [_previous_level |-> 0, _current_level |-> 0, _history |-> <<>>]

\* the level EscalationAnalyzer.analyze gives a message
MessageLevel(message) ==
    LET msg == Lower(message)
    IN  IF ContainsAny(msg, <<"police", "arrest", "legal", "court", "jail", "case">>)
        THEN LEVEL_THREAT
        ELSE IF ContainsAny(msg, <<"otp", "code", "pin", "password", "money", "transfer", "pay">>)
        THEN LEVEL_CRITICAL
        ELSE IF ContainsAny(msg, <<"upi", "account", "bank", "number", "ifsc", "@">>)
        THEN LEVEL_SENSITIVE
        ELSE IF ContainsAny(msg, <<"name", "address", "verify", "check", "confirm">>)
        THEN LEVEL_INFO
        ELSE LEVEL_GREETING

\* the level of every text of the model, computed once
LevelTable == Table([t \in AllTexts |-> MessageLevel(t)])

\* EscalationAnalyzer.analyze: the analyzer after the call
escalation_analyze(an, message) ==
    [_previous_level |-> an._current_level,
     _current_level |-> LevelTable[message],
     _history |-> Append(an._history, LevelTable[message])]

\* EscalationAnalyzer.analyze: the value the call returns (the rate is taken
\* against _previous_level before the state is updated)
escalation_analyze_returns(an, message) == LevelTable[message] - an._previous_level

\* the property EscalationAnalyzer.escalation_rate
escalation_rate(an) == an._current_level - an._previous_level

WINDOW_SIZE == 5

\* AggressionAnalyzer.__init__
NewAggressionAnalyzer == [_scores |-> <<>>]

\* sum(1 for w in words if w in msg_lower)
CountIn(words, msg_lower) == Len(HitsFrom(words, msg_lower))

\* str.split(): the maximal runs of characters that are not white space
RE_word == <<NCls(SpaceSet, 1, -1)>>

\* min(repeated, 2) for a message of more than two words, in halves
RepeatedWords(words) ==
    IF Len(words) > 2 THEN Min(Len(words) - Cardinality(SeqToSet(words)), 2) ELSE 0

\* the score AggressionAnalyzer.analyze gives a message, in halves
AggressionScore(message) ==
    LET msg_lower == Lower(message)
        urgency == CountIn(<<"urgent", "immediately", "now", "fast", "quick", "hurry", "asap">>,
                           msg_lower)
        threats == CountIn(<<"block", "suspend", "arrest", "police", "legal", "freeze", "close">>,
                           msg_lower)
        upper == Cardinality({i \in 1..Len(message) : Ch(message, i) \in UpperSet})
        marks == Cardinality({i \in 1..Len(message) : Ch(message, i) = "!"})
    IN  2 * urgency + 4 * threats
        + (IF 10 * upper > 4 * Max(Len(message), 1) THEN 2 ELSE 0)
        + marks
        + RepeatedWords(FindAll(RE_word, msg_lower, FALSE))

\* the aggression score of every text of the model, computed once
AggressionTable == Table([t \in AllTexts |-> AggressionScore(t)])

\* faulty variant: the deque has no maxlen
append_unbounded(an, score) == [_scores |-> Append(an._scores, score)]

\* self._scores.append(score) on deque(maxlen=WINDOW_SIZE)
aggression_append(an, score) ==
    [_scores |-> IF Len(an._scores) < WINDOW_SIZE
                 THEN Append(an._scores, score)
                 ELSE Append(Tail(an._scores), score)]

\* AggressionAnalyzer.analyze: the analyzer after the call
aggression_analyze(an, message) == aggression_append(an, AggressionTable[message])

\* sum(f(i, y) for i, y in enumerate(scores)), i counted from 0
RECURSIVE SumEnumerate(_, _, _)
SumEnumerate(f(_, _), scores, k) ==
    IF k > Len(scores) THEN 0 ELSE f(k - 1, scores[k]) + SumEnumerate(f, scores, k + 1)

\* round(p / q, 3) for q > 0, in thousandths (a value half-way between two
\* thousandths goes to the even one)
RoundMilli(p, q) ==
    LET lo == (1000 * p) \div q
        rest == 2 * ((1000 * p) % q)
    IN  IF rest > q \/ (rest = q /\ lo % 2 = 1) THEN lo + 1 ELSE lo

\* the property AggressionAnalyzer.aggression_slope, in thousandths.  With the
\* scores in halves, n the length and S the sum of the scores,
\* (i - x_mean) * (y - y_mean) is (2i - (n - 1)) * (n * y - S) / (4n), and
\* (i - x_mean) ** 2 is (2i - (n - 1)) ** 2 / 4.
aggression_slope(an) ==
    IF Len(an._scores) < 2 THEN 0
    ELSE LET n == Len(an._scores)
             S == SumEnumerate(LAMBDA i, y : y, an._scores, 1)
             numerator == SumEnumerate(LAMBDA i, y : (2 * i - (n - 1)) * (n * y - S), an._scores, 1)
             denominator == SumEnumerate(LAMBDA i, y : (2 * i - (n - 1)) * (2 * i - (n - 1)),
                                         an._scores, 1)
         IN  IF denominator = 0 THEN 0 ELSE RoundMilli(numerator, n * denominator)

\* has_otp, has_upi, has_threat and has_urgency of BehaviorEngine.process_reply
ReplyFlags(scammer_msg) ==
    LET msg_lower == Lower(scammer_msg)
    IN  [has_otp |-> ContainsAny(msg_lower, <<"otp", "code", "pin">>),
         has_upi |-> ContainsAny(msg_lower, <<"upi", "@">>),
         has_threat |-> ContainsAny(msg_lower, <<"police", "arrest", "block", "suspend">>),
         has_urgency |-> ContainsAny(msg_lower, <<"urgent", "immediately", "now", "fast">>)]

\* the flags of every text of the model, computed once
FlagsTable == Table([t \in AllTexts |-> ReplyFlags(t)])

\* BehaviorMetrics of the trackers: confidence (thousandths) and escalation_rate
Metrics(intent, escalation) ==
    [confidence |-> intent_confidence(intent), escalation_rate |-> escalation_rate(escalation)]

\* BehaviorEngine.__init__
NewBehaviorEngine ==
    [intent_tracker |-> NewIntentTracker,
     escalation_analyzer |-> NewEscalationAnalyzer,
     aggression_analyzer |-> NewAggressionAnalyzer,
     _metrics |-> [confidence |-> 0, escalation_rate |-> 0]]

\* BehaviorEngine.process_reply with apply_delay=False: the engine after the call.
\* The reply, its typos, its length class and the delay are drawn at random and
\* touch none of the trackers; they are not part of the record.
process_reply(engine, scammer_msg, scam_score, signal_count) ==
    LET intent == intent_update(engine.intent_tracker, scam_score, signal_count,
                                FlagsTable[scammer_msg].has_otp, FlagsTable[scammer_msg].has_upi,
                                FlagsTable[scammer_msg].has_threat,
                                FlagsTable[scammer_msg].has_urgency)
        escalation == escalation_analyze(engine.escalation_analyzer, scammer_msg)
    IN  [intent_tracker |-> intent,
         escalation_analyzer |-> escalation,
         aggression_analyzer |-> aggression_analyze(engine.aggression_analyzer, scammer_msg),
         _metrics |-> Metrics(intent, escalation)]

\* faulty variant: an engine is returned only for a key that has one
get_engine_without_creating(engs, key) == engs

\* get_behavior_engine: the dictionary _engines after the call; the call returns
\* the engine under the key, which it creates when there is none
get_behavior_engine(engs, key) ==
    IF key \in DOMAIN engs THEN engs
    ELSE [k \in DOMAIN engs \cup {key} |-> IF k = key THEN NewBehaviorEngine ELSE engs[k]]

\* cleanup_engine: the dictionary after the call (nothing calls it)
cleanup_engine(engs, key) == [k \in DOMAIN engs \ {key} |-> engs[k]]

\* len(keywords): the signals of the detector that hold a colon, which is every
\* signal but "safety_advice_detected" (score 0 and one signal)
signal_count(det) ==
    IF det.score = 0 /\ Len(det.signals) = 1 THEN 0 ELSE Len(det.signals)

\* Humanizer: seconds, in thousandths
BASE_LATENCY_MIN == 800
BASE_LATENCY_MAX == 2000
CHAR_DELAY_MIN == 50
CHAR_DELAY_MAX == 90
\* random.uniform(-0.2, 0.3)
VARIATION_DOWN == 200
VARIATION_UP == 300
\* max(0.5, min(delay, 5.0))
DELAY_MIN == 500
DELAY_MAX == 5000

\* faulty variant: the delay is not clamped
delay_unclamped(response, base, char_delay, variation) ==
    base + Len(response) * char_delay + variation

\* Humanizer.calculate_delay: the delay it returns, for the three values it
\* draws with random.uniform
calculate_delay(response, base, char_delay, variation) ==
    Max(DELAY_MIN, Min(base + Len(response) * char_delay + variation, DELAY_MAX))

\* round(delay, 2), in hundredths (a value half-way between two hundredths goes
\* to the even one)
RoundCenti(delay) ==
    IF delay % 10 > 5 \/ (delay % 10 = 5 /\ (delay \div 10) % 2 = 1)
    THEN delay \div 10 + 1
    ELSE delay \div 10

\* BehaviorMetrics(): the defaults (reply_length_class is drawn at random by
\* choose_reply_length and depends on nothing else; it is left out)
NewBehaviorMetrics ==
    [confidence |-> 0, escalation_rate |-> 0, aggression_slope |-> 0, delay_applied |-> 0]

\* BehaviorEngine.__init__, the Humanizer (its _last_delay) included
NewReplyEngine ==
    [intent_tracker |-> NewIntentTracker,
     escalation_analyzer |-> NewEscalationAnalyzer,
     aggression_analyzer |-> NewAggressionAnalyzer,
     _last_delay |-> 0,
     _metrics |-> NewBehaviorMetrics]

\* BehaviorEngine.process_reply, "Update trackers"
update_trackers(engine, scammer_msg, scam_score, count) ==
    [engine EXCEPT
        !.intent_tracker = intent_update(@, scam_score, count,
                                         FlagsTable[scammer_msg].has_otp,
                                         FlagsTable[scammer_msg].has_upi,
                                         FlagsTable[scammer_msg].has_threat,
                                         FlagsTable[scammer_msg].has_urgency),
        !.escalation_analyzer = escalation_analyze(@, scammer_msg),
        !.aggression_analyzer = aggression_analyze(@, scammer_msg)]

\* what BehaviorMetrics(...) is built from when process_reply updates _metrics
Snapshot(engine) ==
    [confidence |-> intent_confidence(engine.intent_tracker),
     escalation_rate |-> escalation_rate(engine.escalation_analyzer),
     aggression_slope |-> aggression_slope(engine.aggression_analyzer),
     delay_applied |-> engine._last_delay]

\* BehaviorEngine.process_reply, "Update metrics"
update_metrics(engine) == [engine EXCEPT !._metrics = Snapshot(engine)]

(***************************************************************************)
(* Settings  (src/app/config.py).  Both are read from the environment; the  *)
(* model runs with max_engagement_messages set to 3.                        *)
(***************************************************************************)
session_timeout_minutes == 30
max_engagement_messages == 3

(***************************************************************************)
(* Bounds of the model                                                      *)
(***************************************************************************)
\* a request is accepted while the session holds fewer messages than this
MaxMessages == 3
\* requests suspended in generate_response at the same time
MaxInflight == 2
\* the clock advances in steps of TickMinutes up to MaxNow (minutes)
TickMinutes == 61
MaxNow == 61
\* final-result callbacks scheduled for one session id
MaxCallbacks == 2
\* a request that will update a behaviour engine is accepted while the engine
\* has had, and is due to have, fewer updates than this
MaxTurns == 2

SessionIds == {"s1"}
Endpoints == {"honeypot", "message"}
\* the texts sent as the current message, and those sent as conversationHistory
RequestTexts == {T_scam, T_advice, T_kyc}
Histories == {<<>>, <<T_scam>>}
\* message.timestamp.isoformat() of the requests: the key generate_response uses
TimestampKey == "2026-01-01T10:00:00"
\* scam_score and signal_count generate_response passes when is_scam
AGENT_SCAM_SCORE == 500
AGENT_SIGNAL_COUNT == 3
\* what the agent answers (the first entry of fallback_responses)
AgentReply == "Hello? Yes, I am listening... please continue"
\* the answers and the notes for a message that is not a scam
NeutralReply == "Hello, I'm listening. What is this about?"
NeutralReplySimple == "Hello, I'm listening. What is this regarding?"
NeutralNotes == "Message appears safe. Engaging neutrally in case of escalation."

VARIABLES
    sessions,    \* SessionManager.sessions: session id -> SessionData
    agents,      \* main.agents: the session ids that have an AIAgent
    inflight,    \* the requests suspended in await agent.generate_response(...)
    callbacks,   \* per session id, how often send_final_result was scheduled
    now,         \* datetime.utcnow(), in minutes
    supplied,    \* per session id, the texts sent to it as message or as history
                 \* since its record was created (history variable)
    status,      \* the HTTP status of the response sent last (0: none yet)
    response,    \* the body of the response a message handler sent last, when the
                 \* run follows it (as it follows the engines)
    engines,     \* behavior_engine._engines: key -> BehaviorEngine
    serving,     \* the server takes requests (until the lifespan handler shuts down)
    tracking,    \* whether the run follows _engines (the handlers read no engine
                 \* when they write the store or answer, so the store is the
                 \* same either way); fixed by the initial state
    i_tracker,   \* an IntentTracker alone: the tracker, and the call made last
    i_last,      \* with its arguments and the tracker it found
    a_analyzer,  \* an AggressionAnalyzer alone: the analyzer, and every score
    a_fed,       \* appended to it so far (history variable)
    p_engine,    \* a BehaviorEngine alone, its Humanizer included, and the
    p_calls,     \* process_reply calls suspended in asyncio.sleep
    n_store,     \* a SessionManager.sessions alone, with the messages whose
    n_sent,      \* extraction was merged into its session (history variable)
    e_analyzer,  \* an EscalationAnalyzer alone
    e_returned,  \* what its last call of analyze returned (0 before the first)
    c_cumulative, \* the cumulative score alone: cumulative_score of d_text and
                 \* d_history once it is computed (-1 before)
    d_text,      \* the detector alone: its arguments and its result
    d_history,
    d_result

\* the variables of the components that are run alone
aloneA == <<a_analyzer, a_fed>>
aloneP == <<p_engine, p_calls>>
aloneN == <<n_store, n_sent>>
aloneC == <<c_cumulative>>
aloneE == <<e_analyzer, e_returned>>
alone == <<aloneA, aloneP, aloneN, aloneC, aloneE>>

vars == <<sessions, agents, inflight, callbacks, now, supplied, status, engines, serving, tracking, response, i_tracker, i_last, alone, d_text, d_history, d_result>>

Exists(store, sid) == sid \in DOMAIN store

\* SessionData(session_id=..., engagement_start=utcnow(), messages=[], ...)
NewSession(t) ==
    [scam_detected |-> FALSE, scam_confidence |-> 0, engagement_start |-> t,
     messages |-> <<>>, extracted_intelligence |-> EmptyIntelligence,
     agent_notes |-> <<>>, persona |-> "", is_completed |-> FALSE]

Expired(rec, t) == t - rec.engagement_start > session_timeout_minutes

\* SessionManager.get_session: the store after the call (an expired session is
\* marked completed); the call returns store[sid], or None when sid is absent
get_session(store, sid, t) ==
    IF Exists(store, sid) /\ Expired(store[sid], t)
    THEN [store EXCEPT ![sid].is_completed = TRUE]
    ELSE store

\* SessionManager.create_session
create_session(store, sid, t) ==
    [s \in DOMAIN store \cup {sid} |-> IF s = sid THEN NewSession(t) ELSE store[s]]

\* faulty variant: a record is created whether or not the id has one
create_over_existing(store, sid, t) == create_session(get_session(store, sid, t), sid, t)

\* SessionManager.get_or_create_session.  Neither await inside it suspends: the
\* lock is only ever held by blocks that contain no await, so it is free
\* whenever a coroutine asks for it, and the call runs in one piece
get_or_create_session(store, sid, t) ==
    LET got == get_session(store, sid, t)
    IN  IF Exists(got, sid) THEN got ELSE create_session(got, sid, t)

\* faulty variant: the lists are concatenated but not passed through set()
merge_keeping_repeats(existing, new) ==
    [c \in Categories |-> existing[c] \o new[c]]

\* faulty variant: the new lists replace the stored ones
merge_replacing(existing, new) ==
    [c \in Categories |-> Dedup(new[c])]

\* SessionManager._merge_intelligence
_merge_intelligence(existing, new) ==
    [c \in Categories |-> Dedup(existing[c] \o new[c])]

Has(upd, f) == f \in DOMAIN upd

\* SessionManager.update_session raises ValueError (session not found)
update_session_raises(store, sid) == ~Exists(store, sid)

\* faulty variant: is_completed is written also when it is None
update_resetting_completed(store, sid, upd) ==
    IF ~Exists(store, sid) THEN store
    ELSE [store EXCEPT ![sid] =
            [scam_detected |->
                 IF Has(upd, "scam_detected") THEN upd.scam_detected ELSE @.scam_detected,
             scam_confidence |->
                 IF Has(upd, "scam_confidence") THEN upd.scam_confidence ELSE @.scam_confidence,
             engagement_start |-> @.engagement_start,
             messages |->
                 IF Has(upd, "new_message") THEN Append(@.messages, upd.new_message)
                 ELSE @.messages,
             extracted_intelligence |->
                 IF Has(upd, "intelligence")
                 THEN _merge_intelligence(@.extracted_intelligence, upd.intelligence)
                 ELSE @.extracted_intelligence,
             agent_notes |->
                 IF Has(upd, "agent_note") THEN Append(@.agent_notes, upd.agent_note)
                 ELSE @.agent_notes,
             persona |-> IF Has(upd, "persona") THEN upd.persona ELSE @.persona,
             is_completed |-> Has(upd, "is_completed") /\ upd.is_completed]]

\* faulty variant: a session that is not found is created instead of raising
update_creating_missing(store, sid, upd) ==
    IF ~Exists(store, sid) THEN create_session(store, sid, 0)
    ELSE [store EXCEPT ![sid] =
            [scam_detected |->
                 IF Has(upd, "scam_detected") THEN upd.scam_detected ELSE @.scam_detected,
             scam_confidence |->
                 IF Has(upd, "scam_confidence") THEN upd.scam_confidence ELSE @.scam_confidence,
             engagement_start |-> @.engagement_start,
             messages |->
                 IF Has(upd, "new_message") THEN Append(@.messages, upd.new_message)
                 ELSE @.messages,
             extracted_intelligence |->
                 IF Has(upd, "intelligence")
                 THEN _merge_intelligence(@.extracted_intelligence, upd.intelligence)
                 ELSE @.extracted_intelligence,
             agent_notes |->
                 IF Has(upd, "agent_note") THEN Append(@.agent_notes, upd.agent_note)
                 ELSE @.agent_notes,
             persona |-> IF Has(upd, "persona") THEN upd.persona ELSE @.persona,
             is_completed |->
                 IF Has(upd, "is_completed") THEN upd.is_completed ELSE @.is_completed]]

\* SessionManager.update_session: upd is a record of the arguments that are not
\* None.  For an unknown session id the call raises ValueError and the store is
\* as before; callers test Exists first.
update_session(store, sid, upd) ==
    IF ~Exists(store, sid) THEN store
    ELSE [store EXCEPT ![sid] =
            [scam_detected |->
                 IF Has(upd, "scam_detected") THEN upd.scam_detected ELSE @.scam_detected,
             scam_confidence |->
                 IF Has(upd, "scam_confidence") THEN upd.scam_confidence ELSE @.scam_confidence,
             engagement_start |-> @.engagement_start,
             messages |->
                 IF Has(upd, "new_message") THEN Append(@.messages, upd.new_message)
                 ELSE @.messages,
             extracted_intelligence |->
                 IF Has(upd, "intelligence")
                 THEN _merge_intelligence(@.extracted_intelligence, upd.intelligence)
                 ELSE @.extracted_intelligence,
             agent_notes |->
                 IF Has(upd, "agent_note") THEN Append(@.agent_notes, upd.agent_note)
                 ELSE @.agent_notes,
             persona |-> IF Has(upd, "persona") THEN upd.persona ELSE @.persona,
             is_completed |->
                 IF Has(upd, "is_completed") THEN upd.is_completed ELSE @.is_completed]]

\* faulty variant: an expired record is emptied, not removed
cleanup_emptying_expired(store, t) ==
    [s \in DOMAIN store |->
        IF t - store[s].engagement_start > session_timeout_minutes * 2
        THEN NewSession(t) ELSE store[s]]

\* SessionManager.cleanup_expired_sessions: the store after the call
cleanup_expired_sessions(store, t) ==
    [s \in {r \in DOMAIN store :
                ~(t - store[r].engagement_start > session_timeout_minutes * 2)} |-> store[s]]

\* SessionManager.should_complete_session, on the store get_session leaves
should_complete_session(store, sid, t) ==
    /\ Exists(store, sid)
    /\ \/ store[sid].is_completed
       \/ Len(store[sid].messages) >= max_engagement_messages
       \/ Expired(store[sid], t)

\* faulty variant: completing a session also clears its confidence
complete_resetting_confidence(store, sid) ==
    update_session(store, sid, [is_completed |-> TRUE, scam_confidence |-> 0])

\* SessionManager.complete_session
complete_session(store, sid) == update_session(store, sid, [is_completed |-> TRUE])

(***************************************************************************)
(* process_message and process_message_simple  (src/app/main.py)            *)
(***************************************************************************)
\* hist_score * 0.3 with _, hist_score = detect(hist_text, []), for every text of
\* the model, computed once
HistoryWeightTable == Table([t \in AllTexts |-> (detect(t, <<>>).score * 3) \div 10])

RECURSIVE HistorySum(_, _)
\* sum of hist_score * 0.3 over the history texts hs[k], hs[k + 1], ..., each
\* scored without history
HistorySum(hs, k) ==
    IF k > Len(hs) THEN 0
    ELSE HistoryWeightTable[hs[k]] + HistorySum(hs, k + 1)

\* faulty variant: every history text is counted
whole_history(hs) == hs

\* history_strings[-5:]
LastFive(hs) == IF Len(hs) <= 5 THEN hs ELSE SubSeq(hs, Len(hs) - 4, Len(hs))

\* faulty variant: the texts of conversationHistory add nothing
cumulative_ignoring_history(risk_score, history) == risk_score

\* cumulative_score = risk_score + sum(hist_score * 0.3 for history_strings[-5:])
cumulative_score(risk_score, history) == risk_score + HistorySum(LastFive(history), 1)

\* faulty variant: the flag already stored for the session is not consulted
decision_without_session(is_scam_current, session_was_scam, cumulative) ==
    is_scam_current \/ cumulative >= THRESHOLD_SCAM

\* faulty variant: the cumulative score is not consulted
decision_without_cumulative(is_scam_current, session_was_scam, cumulative) ==
    is_scam_current \/ session_was_scam

\* is_scam = is_scam_current or session_was_scam or (cumulative_score >= 6.0)
Decision(is_scam_current, session_was_scam, cumulative) ==
    is_scam_current \/ session_was_scam \/ cumulative >= THRESHOLD_SCAM

\* faulty variant: the confidence is not capped at 1.0
confidence_uncapped(cumulative) == cumulative

\* faulty variant: the score is divided by 20 instead of 10
confidence_halved(cumulative) == Min(cumulative \div 2, SCORE_MAX)

\* confidence = min(cumulative_score / 10.0, 1.0), in thousandths
Confidence(cumulative) == Min(cumulative, SCORE_MAX)

DetectionNote(risk, cumulative) == [kind |-> "detection", risk |-> risk, cumulative |-> cumulative]
AgentNote == [kind |-> "agent", risk |-> 0, cumulative |-> 0]

\* no response body recorded
NoResponse == [status |-> ""]

\* ExtractedIntelligenceInternal.to_api_format
to_api_format(intelligence) ==
    [c \in {"bankAccounts", "upiIds", "phishingLinks"} |-> intelligence[c]]

\* HoneypotResponse(status="success", scamDetected=is_scam, engagementMetrics=...,
\* extractedIntelligence=api_intelligence, agentNotes=agent_notes): the fields of
\* the model, which the JSON body has and no others (the time in seconds)
HoneypotResponse(store, sid, is_scam, agent_notes, t) ==
    [status |-> "success",
     scamDetected |-> is_scam,
     engagementMetrics |->
         [engagementDurationSeconds |-> 60 * (t - store[sid].engagement_start),
          totalMessagesExchanged |-> Len(store[sid].messages)],
     extractedIntelligence |-> to_api_format(store[sid].extracted_intelligence),
     agentNotes |-> agent_notes]

\* SimpleResponse(status="success", reply=reply)
SimpleResponse(reply) == [status |-> "success", reply |-> reply]

\* HTTPException(status_code=500, detail=...)
ErrorBody == [detail |-> "Error processing message"]

\* the body a message handler answers with
Respond(store, sid, ep, is_scam, reply, agent_notes, t) ==
    IF ~tracking THEN NoResponse
    ELSE IF ep = "honeypot" THEN HoneypotResponse(store, sid, is_scam, agent_notes, t)
    ELSE SimpleResponse(reply)

\* Steps 1 and 2 of a request: the message is stored, the classification and the
\* merged intelligence are written, the persona is set when an agent is made
Classified(store, sid, text, history, ep, risk, cumulative, is_scam) ==
    LET written == update_session(
                       update_session(store, sid,
                                      [scam_detected |-> is_scam,
                                       scam_confidence |-> Confidence(cumulative),
                                       agent_note |-> DetectionNote(risk, cumulative)]),
                       sid, [intelligence |-> extract_from_conversation(text, history)])
    IN  IF (is_scam \/ ep = "message") /\ store[sid].persona = ""
        THEN update_session(written, sid, [persona |-> "persona"])
        ELSE written

\* Step 5: should_complete_session, complete_session and the callback; the store
\* after it and whether the callback was scheduled
Completion(store, sid, is_scam, t) ==
    IF should_complete_session(get_session(store, sid, t), sid, t) /\ is_scam
    THEN [store |-> get_session(complete_session(get_session(store, sid, t), sid), sid, t),
          callback |-> 1]
    ELSE [store |-> get_session(store, sid, t), callback |-> 0]

\* the updates an engine has had
Turns(engs, key) == IF key \in DOMAIN engs THEN engs[key].intent_tracker._turn_count ELSE 0

\* get_behavior_engine(key) followed by process_reply(...) on the engine it returns
UpdateEngine(engs, key, scammer_msg, scam_score, count) ==
    IF tracking
    THEN [get_behavior_engine(engs, key) EXCEPT
             ![key] = process_reply(@, scammer_msg, scam_score, count)]
    ELSE engs

\* the suspended requests that will update the engine of session sid when they end
Pending(sid) ==
    Cardinality({i \in 1..Len(inflight) : inflight[i].sid = sid /\ inflight[i].ep = "honeypot"})

\* a request suspended in generate_response: the locals the rest of the handler
\* reads.  Those that only the engine updates read (the endpoint, message.text,
\* cumulative_score, len(keywords)) are kept when the run follows the engines.
Suspended(sid, is_scam, ep, text, cumulative, count) ==
    IF tracking
    THEN [sid |-> sid, is_scam |-> is_scam, ep |-> ep, text |-> text,
          cumulative |-> cumulative, signals |-> count]
    ELSE [sid |-> sid, is_scam |-> is_scam, ep |-> "", text |-> "",
          cumulative |-> 0, signals |-> 0]

CanAccept(sid) ==
    /\ serving
    /\ Exists(sessions, sid) => Len(sessions[sid].messages) < MaxMessages
    /\ callbacks[sid] < MaxCallbacks

\* a request arrives and runs up to await agent.generate_response(...), or, when
\* the message is not taken for a scam, to its end
ProcessMessage(sid, text, history, ep) ==
    /\ CanAccept(sid)
    /\ \E stored \in {update_session(get_or_create_session(sessions, sid, now), sid,
                                     [new_message |-> [sender |-> "scammer", text |-> text]])},
          det \in {detect(text, history)} :
       \E cumulative \in {cumulative_score(det.score, history)} :
       \E is_scam \in {Decision(det.is_scam, stored[sid].scam_detected, cumulative)} :
       \E classified \in {Classified(stored, sid, text, history, ep,
                                     det.score, cumulative, is_scam)} :
       \E done \in {Completion(classified, sid, is_scam, now)} :
          /\ agents' = IF is_scam \/ ep = "message" THEN agents \cup {sid} ELSE agents
          /\ supplied' = [supplied EXCEPT ![sid] =
                             (IF stored[sid].messages = <<[sender |-> "scammer", text |-> text]>>
                              THEN {} ELSE @)
                             \cup {text} \cup SeqToSet(history)]
          /\ (tracking /\ ep = "honeypot") => Turns(engines, sid) + Pending(sid) < MaxTurns
          /\ IF is_scam
             THEN /\ Len(inflight) < MaxInflight
                  /\ tracking => Turns(engines, TimestampKey) + Len(inflight) < MaxTurns
                  /\ sessions' = classified
                  /\ inflight' = Append(inflight,
                                        Suspended(sid, is_scam, ep, text, cumulative,
                                                  signal_count(det)))
                  /\ UNCHANGED callbacks
                  /\ UNCHANGED status
                  /\ UNCHANGED response
                  /\ UNCHANGED engines
             ELSE /\ sessions' = done.store
                  /\ callbacks' = [callbacks EXCEPT ![sid] = @ + done.callback]
                  /\ status' = 200
                  /\ response' = Respond(done.store, sid, ep, is_scam,
                                         IF ep = "honeypot" THEN NeutralReply
                                         ELSE NeutralReplySimple,
                                         NeutralNotes, now)
                  /\ engines' = IF ep = "honeypot"
                                THEN UpdateEngine(engines, sid, text, cumulative,
                                                  signal_count(det))
                                ELSE engines
                  /\ UNCHANGED inflight
    /\ UNCHANGED <<now, serving, tracking, i_tracker, i_last, alone, d_text, d_history, d_result>>

RemoveAt(q, i) == SubSeq(q, 1, i - 1) \o SubSeq(q, i + 1, Len(q))

\* generate_response returns: the reply is stored, the session is completed when
\* it should be, the response is built.  When the session is gone, update_session
\* raises and the request ends with status 500.
ResumeMessage(i) ==
    /\ serving
    /\ i \in 1..Len(inflight)
    /\ inflight' = RemoveAt(inflight, i)
    /\ \E answered \in {UpdateEngine(engines, TimestampKey, inflight[i].text,
                                      AGENT_SCAM_SCORE, AGENT_SIGNAL_COUNT)} :
          IF ~update_session_raises(sessions, inflight[i].sid)
          THEN \E replied \in {update_session(sessions, inflight[i].sid,
                                              [new_message |-> [sender |-> "user", text |-> AgentReply],
                                               agent_note |-> AgentNote])} :
               \E done \in {Completion(replied, inflight[i].sid, inflight[i].is_scam, now)} :
                  /\ sessions' = done.store
                  /\ callbacks' = [callbacks EXCEPT ![inflight[i].sid] = @ + done.callback]
                  /\ status' = 200
                  /\ response' = Respond(done.store, inflight[i].sid, inflight[i].ep,
                                         inflight[i].is_scam, AgentReply, "agent notes", now)
                  /\ engines' = IF inflight[i].ep = "honeypot"
                                THEN UpdateEngine(answered, inflight[i].sid, inflight[i].text,
                                                  inflight[i].cumulative, inflight[i].signals)
                                ELSE answered
          ELSE /\ status' = 500
               /\ response' = IF tracking THEN ErrorBody ELSE NoResponse
               /\ engines' = answered
               /\ UNCHANGED <<sessions, callbacks>>
    /\ UNCHANGED <<agents, now, supplied, serving, tracking, i_tracker, i_last, alone, d_text, d_history, d_result>>

\* GET /api/session/{id}: get_session and get_session_summary; 404 when the
\* session is not found
GetSessionInfo(sid) ==
    /\ serving
    /\ sessions' = get_session(sessions, sid, now)
    /\ status' = IF Exists(sessions, sid) THEN 200 ELSE 404
    /\ UNCHANGED <<agents, inflight, callbacks, now, supplied, engines, serving, tracking, response, i_tracker, i_last, alone, d_text, d_history, d_result>>

\* POST /api/session/{id}/complete
CompleteSession(sid) ==
    /\ serving
    /\ callbacks[sid] < MaxCallbacks
    /\ IF ~Exists(sessions, sid)
       THEN /\ status' = 404
            /\ UNCHANGED <<sessions, callbacks>>
       ELSE /\ status' = 200
            /\ \E got \in {get_session(sessions, sid, now)} :
                  IF got[sid].is_completed
                  THEN /\ sessions' = got
                       /\ UNCHANGED callbacks
                  ELSE /\ sessions' = get_session(complete_session(got, sid), sid, now)
                       /\ callbacks' = [callbacks EXCEPT ![sid] =
                                           @ + (IF got[sid].scam_detected THEN 1 ELSE 0)]
    /\ UNCHANGED <<agents, inflight, now, supplied, engines, serving, tracking, response, i_tracker, i_last, alone, d_text, d_history, d_result>>

\* DELETE /api/session/{id}
DeleteSession(sid) ==
    /\ serving
    /\ IF ~Exists(sessions, sid)
       THEN /\ status' = 404
            /\ UNCHANGED <<sessions, agents>>
       ELSE /\ status' = 200
            /\ agents' = agents \ {sid}
            /\ sessions' = [s \in DOMAIN sessions \ {sid} |-> sessions[s]]
    /\ UNCHANGED <<inflight, callbacks, now, supplied, engines, serving, tracking, response, i_tracker, i_last, alone, d_text, d_history, d_result>>

\* lifespan, after yield: the server has stopped taking requests and those under
\* way have ended; cleanup_expired_sessions runs
Shutdown ==
    /\ serving
    /\ inflight = <<>>
    /\ serving' = FALSE
    /\ sessions' = cleanup_expired_sessions(sessions, now)
    /\ UNCHANGED <<agents, inflight, callbacks, now, supplied, status, engines, tracking, response,
                   i_tracker, i_last, alone, d_text, d_history, d_result>>

\* time passes
Tick ==
    /\ serving
    /\ now + TickMinutes <= MaxNow
    /\ now' = now + TickMinutes
    /\ UNCHANGED <<sessions, agents, inflight, callbacks, supplied, status, engines, serving, tracking, response, i_tracker, i_last, alone, d_text, d_history, d_result>>

\* the components that are run alone, as constructed
AloneInit ==
    /\ a_analyzer = NewAggressionAnalyzer
    /\ a_fed = <<>>
    /\ p_engine = NewReplyEngine
    /\ p_calls = <<>>
    /\ n_store = create_session(<<>>, "s1", 0)
    /\ n_sent = <<>>
    /\ c_cumulative = -1
    /\ e_analyzer = NewEscalationAnalyzer
    /\ e_returned = 0

Init ==
    /\ sessions = <<>>
    /\ agents = {}
    /\ inflight = <<>>
    /\ callbacks = [s \in SessionIds |-> 0]
    /\ now = 0
    /\ supplied = [s \in SessionIds |-> {}]
    /\ status = 0
    /\ response = NoResponse
    /\ engines = <<>>
    /\ serving = TRUE
    /\ tracking = FALSE
    /\ i_tracker = NewIntentTracker
    /\ i_last = NoCall
    /\ AloneInit
    /\ d_text = T_hello
    /\ d_history = <<>>
    /\ d_result = [applied |-> FALSE, is_scam |-> FALSE, score |-> 0]

Next ==
    \/ \E sid \in SessionIds, text \in RequestTexts, history \in Histories, ep \in Endpoints :
          ProcessMessage(sid, text, history, ep)
    \/ \E i \in 1..MaxInflight : ResumeMessage(i)
    \/ \E sid \in SessionIds : GetSessionInfo(sid)
    \/ \E sid \in SessionIds : CompleteSession(sid)
    \/ \E sid \in SessionIds : DeleteSession(sid)
    \/ Tick
    \/ Shutdown

Spec == Init /\ [][Next]_vars

(***************************************************************************)
(* The handlers with the behaviour engines followed: message requests       *)
(* without conversationHistory on both endpoints, and deletion.             *)
(***************************************************************************)
InitBehavior ==
    /\ sessions = <<>>
    /\ agents = {}
    /\ inflight = <<>>
    /\ callbacks = [s \in SessionIds |-> 0]
    /\ now = 0
    /\ supplied = [s \in SessionIds |-> {}]
    /\ status = 0
    /\ response = NoResponse
    /\ engines = <<>>
    /\ serving = TRUE
    /\ tracking = TRUE
    /\ i_tracker = NewIntentTracker
    /\ i_last = NoCall
    /\ AloneInit
    /\ d_text = T_hello
    /\ d_history = <<>>
    /\ d_result = [applied |-> FALSE, is_scam |-> FALSE, score |-> 0]

NextBehavior ==
    \/ \E sid \in SessionIds, text \in RequestTexts, ep \in Endpoints :
          ProcessMessage(sid, text, <<>>, ep)
    \/ \E i \in 1..MaxInflight : ResumeMessage(i)
    \/ \E sid \in SessionIds : DeleteSession(sid)

SpecBehavior == InitBehavior /\ [][NextBehavior]_vars

(***************************************************************************)
(* An IntentTracker alone: update and reset called in any order.            *)
(***************************************************************************)
\* update is called while the tracker has had fewer updates than this
MaxIntentTurns == 3
\* reset is called at most this often
MaxResets == 1
\* scam_score (hundredths; 13.0 is above the detector's range) and signal_count
IntentScores == {0, 450, 1300}
IntentCounts == {0, 3}
IntentFlags ==
    {[has_otp |-> FALSE, has_upi |-> FALSE, has_threat |-> FALSE, has_urgency |-> FALSE],
     [has_otp |-> TRUE, has_upi |-> FALSE, has_threat |-> FALSE, has_urgency |-> FALSE],
     [has_otp |-> TRUE, has_upi |-> TRUE, has_threat |-> TRUE, has_urgency |-> TRUE]}

InitIntent ==
    /\ sessions = <<>>
    /\ agents = {}
    /\ inflight = <<>>
    /\ callbacks = [s \in SessionIds |-> 0]
    /\ now = 0
    /\ supplied = [s \in SessionIds |-> {}]
    /\ status = 0
    /\ response = NoResponse
    /\ engines = <<>>
    /\ serving = TRUE
    /\ tracking = FALSE
    /\ i_tracker = NewIntentTracker
    /\ i_last = NoCall
    /\ AloneInit
    /\ d_text = T_hello
    /\ d_history = <<>>
    /\ d_result = [applied |-> FALSE, is_scam |-> FALSE, score |-> 0]

\* tracker.update(scam_score, signal_count, has_otp, has_upi, has_threat, has_urgency)
IntentUpdate(scam_score, count, flags) ==
    /\ i_tracker._turn_count < MaxIntentTurns
    /\ i_tracker' = intent_update(i_tracker, scam_score, count, flags.has_otp, flags.has_upi,
                                  flags.has_threat, flags.has_urgency)
    /\ i_last' = [op |-> "update", scam_score |-> scam_score, signal_count |-> count,
                  flags |-> flags, found |-> i_tracker, resets |-> i_last.resets]
    /\ UNCHANGED <<sessions, agents, inflight, callbacks, now, supplied, status, engines,
                   serving, tracking, response, alone, d_text, d_history, d_result>>

\* tracker.reset()
IntentReset ==
    /\ i_last.resets < MaxResets
    /\ i_tracker' = NewIntentTracker
    /\ i_last' = [op |-> "reset", scam_score |-> 0, signal_count |-> 0,
                  flags |-> i_last.flags, found |-> i_tracker, resets |-> i_last.resets + 1]
    /\ UNCHANGED <<sessions, agents, inflight, callbacks, now, supplied, status, engines,
                   serving, tracking, response, alone, d_text, d_history, d_result>>

NextIntent ==
    \/ \E scam_score \in IntentScores, count \in IntentCounts, flags \in IntentFlags :
          IntentUpdate(scam_score, count, flags)
    \/ IntentReset

SpecIntent == InitIntent /\ [][NextIntent]_vars

(***************************************************************************)
(* An AggressionAnalyzer alone: analyze called with messages of given       *)
(* scores.                                                                  *)
(***************************************************************************)
\* analyze is called at most this often
MaxFed == 6
\* the scores of the messages analysed, in halves (0, 1, 2, 3 and 4)
AggressionScores == {0, 2, 4, 6, 8}

InitAggression == Init

\* analyzer.analyze(message) for a message that scores `score`
AggressionAnalyze(score) ==
    /\ Len(a_fed) < MaxFed
    /\ a_analyzer' = aggression_append(a_analyzer, score)
    /\ a_fed' = Append(a_fed, score)
    /\ UNCHANGED <<aloneP, aloneN, aloneC, aloneE>>
    /\ UNCHANGED <<sessions, agents, inflight, callbacks, now, supplied, status, engines,
                   serving, tracking, response, i_tracker, i_last, d_text, d_history, d_result>>

NextAggression == \E score \in AggressionScores : AggressionAnalyze(score)

SpecAggression == InitAggression /\ [][NextAggression]_vars

(***************************************************************************)
(* A BehaviorEngine alone: process_reply called with and without            *)
(* apply_delay, the calls with it overlapping.                              *)
(***************************************************************************)
\* process_reply is called at most this often
MaxReplyCalls == 2
\* the replies passed (apply_typos leaves a text of fewer than 8 words as it is)
ReplyTexts == {"", AgentReply}
ReplyMessages == {T_kyc, T_scam}
\* the values random.uniform draws: the ends of the ranges, and a variation
\* that gives a delay between two hundredths
BaseDraws == {BASE_LATENCY_MIN, BASE_LATENCY_MAX}
CharDraws == {CHAR_DELAY_MIN, CHAR_DELAY_MAX}
VariationDraws == {0 - VARIATION_DOWN, VARIATION_UP - 3}

InitReply == Init

\* await engine.process_reply(reply, scammer_msg, scam_score, signal_count,
\* apply_delay), up to its await or, with apply_delay=False, to its end
ProcessReply(reply, scammer_msg, apply_delay, base, char_delay, variation) ==
    /\ p_engine.intent_tracker._turn_count < MaxReplyCalls
    /\ \E delay \in {calculate_delay(reply, base, char_delay, variation)} :
       \E updated \in {[update_trackers(p_engine, scammer_msg, AGENT_SCAM_SCORE,
                                        AGENT_SIGNAL_COUNT)
                            EXCEPT !._last_delay = RoundCenti(delay)]} :
          IF apply_delay
          THEN \* await self.humanizer.apply_delay(enhanced_reply)
               /\ p_engine' = updated
               /\ p_calls' = Append(p_calls, [sleep |-> delay, own |-> Snapshot(updated)])
          ELSE \* self.humanizer.calculate_delay(enhanced_reply), then the metrics
               /\ p_engine' = update_metrics(updated)
               /\ p_calls' = p_calls
    /\ UNCHANGED <<aloneA, aloneN, aloneC, aloneE>>
    /\ UNCHANGED <<sessions, agents, inflight, callbacks, now, supplied, status, engines,
                   serving, tracking, response, i_tracker, i_last, d_text, d_history, d_result>>

\* asyncio.sleep(delay) of a suspended call is over: the call updates the metrics
\* and returns
WakeReply(i) ==
    /\ i <= Len(p_calls)
    /\ p_engine' = update_metrics(p_engine)
    /\ p_calls' = RemoveAt(p_calls, i)
    /\ UNCHANGED <<aloneA, aloneN, aloneC, aloneE>>
    /\ UNCHANGED <<sessions, agents, inflight, callbacks, now, supplied, status, engines,
                   serving, tracking, response, i_tracker, i_last, d_text, d_history, d_result>>

NextReply ==
    \/ \E reply \in ReplyTexts, scammer_msg \in ReplyMessages, apply_delay \in BOOLEAN,
          base \in BaseDraws, char_delay \in CharDraws, variation \in VariationDraws :
          ProcessReply(reply, scammer_msg, apply_delay, base, char_delay, variation)
    \/ \E i \in 1..MaxReplyCalls : WakeReply(i)

SpecReply == InitReply /\ [][NextReply]_vars

(***************************************************************************)
(* The intelligence of one session alone: messages that hold a phone number *)
(* in one of its forms are extracted and merged, as steps 2 of the message  *)
(* handlers do.                                                             *)
(***************************************************************************)
\* at most this many messages are processed
MaxPhoneMessages == 2

InitPhone == Init

\* intelligence = extract_from_conversation(message, history);
\* update_session(session_id, intelligence=intelligence), the history being empty
\* or the messages sent before
PhoneProcess(text, history) ==
    /\ Len(n_sent) < MaxPhoneMessages
    /\ n_store' = update_session(n_store, "s1",
                                 [intelligence |-> extract_from_conversation(text, history)])
    /\ n_sent' = Append(n_sent, text)
    /\ UNCHANGED <<aloneA, aloneP, aloneC, aloneE>>
    /\ UNCHANGED <<sessions, agents, inflight, callbacks, now, supplied, status, engines,
                   serving, tracking, response, i_tracker, i_last, d_text, d_history, d_result>>

NextPhone ==
    \E text \in PhoneMessages, history \in {<<>>, n_sent} : PhoneProcess(text, history)

SpecPhone == InitPhone /\ [][NextPhone]_vars

(***************************************************************************)
(* The detector alone: detect applied to a text and a history.              *)
(***************************************************************************)
\* longest history given to the detector
MaxDetectHistory == 3
DetectHistoryTexts == {T_kyc, T_pay, T_hello}
DetectHistories == UNION {[1..n -> DetectHistoryTexts] : n \in 0..MaxDetectHistory}

InitDetect ==
    /\ sessions = <<>>
    /\ agents = {}
    /\ inflight = <<>>
    /\ callbacks = [s \in SessionIds |-> 0]
    /\ now = 0
    /\ supplied = [s \in SessionIds |-> {}]
    /\ status = 0
    /\ response = NoResponse
    /\ engines = <<>>
    /\ serving = TRUE
    /\ tracking = FALSE
    /\ i_tracker = NewIntentTracker
    /\ i_last = NoCall
    /\ AloneInit
    /\ d_text \in AllTexts
    /\ d_history \in DetectHistories
    /\ d_result = [applied |-> FALSE, is_scam |-> FALSE, score |-> 0]

Detect ==
    /\ ~d_result.applied
    /\ LET r == detect(d_text, d_history)
       IN  d_result' = [applied |-> TRUE, is_scam |-> r.is_scam, score |-> r.score]
    /\ UNCHANGED <<sessions, agents, inflight, callbacks, now, supplied, status, engines, serving, tracking, response, i_tracker, i_last, alone, d_text, d_history>>

NextDetect == Detect

SpecDetect == InitDetect /\ [][NextDetect]_vars

(***************************************************************************)
(* An EscalationAnalyzer alone: analyze called message after message, the   *)
(* value each call returns kept.                                            *)
(***************************************************************************)
\* at most this many messages are analysed
MaxAnalysed == 3
\* one text of each level: Greeting, Info, Sensitive, Critical, Threat
EscalationMessages == {T_hello, T_kyc, T_scam, T_pay, T_test}

InitEscalation == Init

\* rate = analyzer.analyze(message)
EscalationAnalyze(message) ==
    /\ Len(e_analyzer._history) < MaxAnalysed
    /\ e_returned' = escalation_analyze_returns(e_analyzer, message)
    /\ e_analyzer' = escalation_analyze(e_analyzer, message)
    /\ UNCHANGED <<aloneA, aloneP, aloneN, aloneC>>
    /\ UNCHANGED <<sessions, agents, inflight, callbacks, now, supplied, status, engines,
                   serving, tracking, response, i_tracker, i_last, d_text, d_history, d_result>>

NextEscalation == \E message \in EscalationMessages : EscalationAnalyze(message)

SpecEscalation == InitEscalation /\ [][NextEscalation]_vars

(***************************************************************************)
(* The cumulative score alone: detect applied to the message and the        *)
(* supplied history, and the loop over history_strings[-5:].                *)
(***************************************************************************)
\* the supplied history has at most this many texts
MaxCumulativeHistory == 6
CumulativeTexts == {T_kyc, T_hello}
CumulativeHistories ==
    UNION {[1..n -> {T_kyc, T_pay}] : n \in 0..MaxCumulativeHistory}

InitCumulative ==
    /\ sessions = <<>>
    /\ agents = {}
    /\ inflight = <<>>
    /\ callbacks = [s \in SessionIds |-> 0]
    /\ now = 0
    /\ supplied = [s \in SessionIds |-> {}]
    /\ status = 0
    /\ response = NoResponse
    /\ engines = <<>>
    /\ serving = TRUE
    /\ tracking = FALSE
    /\ i_tracker = NewIntentTracker
    /\ i_last = NoCall
    /\ AloneInit
    /\ d_text \in CumulativeTexts
    /\ d_history \in CumulativeHistories
    /\ d_result = [applied |-> FALSE, is_scam |-> FALSE, score |-> 0]

\* detector.detect(message.text, history_strings), then cumulative_score =
\* risk_score and the loop over history_strings[-5:]
Cumulate ==
    /\ ~d_result.applied
    /\ \E det \in {detect(d_text, d_history)} :
          /\ d_result' = [applied |-> TRUE, is_scam |-> det.is_scam, score |-> det.score]
          /\ c_cumulative' = cumulative_score(det.score, d_history)
    /\ UNCHANGED <<aloneA, aloneP, aloneN, aloneE>>
    /\ UNCHANGED <<sessions, agents, inflight, callbacks, now, supplied, status, engines,
                   serving, tracking, response, i_tracker, i_last, d_text, d_history>>

NextCumulative == Cumulate

SpecCumulative == InitCumulative /\ [][NextCumulative]_vars

(***************************************************************************)
(* Properties                                                               *)
(***************************************************************************)
NoDuplicates(seq) == Cardinality(SeqToSet(seq)) = Len(seq)

\* the texts stored for a session as incoming (current) messages
CurrentTexts(s) ==
    {sessions[s].messages[i].text :
        i \in {j \in 1..Len(sessions[s].messages) : sessions[s].messages[j].sender = "scammer"}}

\* per category, the union of the single-message extractions of a set of texts
ExtractedFrom(texts, c) == UNION {SeqToSet(ExtractTable[t][c]) : t \in texts}

\* the flag of the session a request finds (False when it creates the session)
FlagBefore(sid) == Exists(sessions, sid) /\ sessions[sid].scam_detected

\* the number of messages of the session a request finds
MessagesBefore(sid) == IF Exists(sessions, sid) THEN Len(sessions[sid].messages) ELSE 0

\* the step is this message request; the first two conjuncts hold of every step
\* of ProcessMessage (it stores the incoming message last) and are tested first
Request(sid, text, history, ep) ==
    /\ Exists(sessions', sid)
    /\ Len(sessions'[sid].messages) = MessagesBefore(sid) + 1
    /\ sessions'[sid].messages[Len(sessions'[sid].messages)] = [sender |-> "scammer", text |-> text]
    /\ ProcessMessage(sid, text, history, ep)

\* C1: while a session record exists, no step of any request, completion call,
\* read or clock tick, in any interleaving, changes its scam_detected flag from
\* true to false.
C1_FlagNeverCleared ==
    [][\A s \in SessionIds :
          (Exists(sessions, s) /\ Exists(sessions', s) /\ sessions[s].scam_detected)
              => sessions'[s].scam_detected]_vars

\* a flagged session whose latest request scored nothing (its confidence is 0)
C1_Witness ==
    \E s \in DOMAIN sessions :
        /\ sessions[s].scam_detected
        /\ sessions[s].scam_confidence = 0
        /\ Len(sessions[s].messages) >= 2

C3_IntelligenceGrowsWithoutDuplicates ==
    [][\A s \in SessionIds : Exists(sessions', s) =>
          \A c \in Categories :
             /\ NoDuplicates(sessions'[s].extracted_intelligence[c])
             /\ Exists(sessions, s) =>
                   SeqToSet(sessions[s].extracted_intelligence[c])
                       \subseteq SeqToSet(sessions'[s].extracted_intelligence[c])]_vars

\* a session into which the same text was merged twice and a different one once
C3_Witness ==
    \E s \in DOMAIN sessions :
        /\ \E i, j \in 1..Len(sessions[s].messages) :
              /\ i < j
              /\ sessions[s].messages[i] = sessions[s].messages[j]
              /\ sessions[s].messages[i].sender = "scammer"
              /\ ExtractTable[sessions[s].messages[i].text].suspiciousKeywords # <<>>
        /\ Cardinality(CurrentTexts(s)) >= 2

\* C4: in every message request, on both endpoints, the flag stored for the
\* session is (the detector takes the current message for a scam) or (the flag
\* the request found) or (cumulative score >= 6.0); the detector's verdict may be
\* taken with or without the history, the disjunction is the same.
C4_FlagIsDisjunction ==
    [][\A sid \in SessionIds, text \in RequestTexts, history \in Histories, ep \in Endpoints :
          Request(sid, text, history, ep) =>
             /\ sessions'[sid].scam_detected =
                   (\/ detect(text, history).is_scam
                    \/ FlagBefore(sid)
                    \/ cumulative_score(detect(text, history).score, history) >= 600)
             /\ sessions'[sid].scam_detected =
                   (\/ detect(text, <<>>).is_scam
                    \/ FlagBefore(sid)
                    \/ cumulative_score(detect(text, history).score, history) >= 600)]_vars

\* a session flagged by its first request, whose message alone scored below 6.0
\* while the cumulative score reached it
C4_Witness ==
    \E s \in DOMAIN sessions :
        /\ sessions[s].scam_detected
        /\ sessions[s].agent_notes # <<>>
        /\ sessions[s].agent_notes[1].kind = "detection"
        /\ sessions[s].agent_notes[1].risk < THRESHOLD_SCAM
        /\ sessions[s].agent_notes[1].cumulative >= THRESHOLD_SCAM

\* the texts the specification gives as protective advice
ProtectiveAdviceTexts == {T_advice, T_nevershare, T_noclick}

\* C5 as stated: for every protective-advice text, the examples "never share
\* OTP" and "don't click unknown links" among them, and every history, the
\* detector returns score 0 and is_scam false.
C5_AdviceScoresNothing ==
    (d_result.applied /\ d_text \in ProtectiveAdviceTexts)
        => (d_result.score = 0 /\ ~d_result.is_scam)

\* the intelligence of the session a request finds (empty when it creates it)
IntelligenceBefore(sid) ==
    IF Exists(sessions, sid) THEN sessions[sid].extracted_intelligence ELSE EmptyIntelligence

\* C6 as stated: a request with the protective-advice message and an empty
\* history leaves the intelligence of the session as it was.
C6_AdviceLeavesIntelligence ==
    [][\A sid \in SessionIds, ep \in Endpoints :
          Request(sid, T_advice, <<>>, ep) =>
             sessions'[sid].extracted_intelligence = IntelligenceBefore(sid)]_vars

\* C6 amended: a request with the protective-advice message and an empty history
\* adds the keyword "otp", which the message contains, to suspiciousKeywords and
\* leaves every other category as it was.
C6_AdviceAddsItsKeyword ==
    [][\A sid \in SessionIds, ep \in Endpoints :
          Request(sid, T_advice, <<>>, ep) =>
             \A c \in Categories :
                IF c = "suspiciousKeywords"
                THEN SeqToSet(sessions'[sid].extracted_intelligence[c])
                         = SeqToSet(IntelligenceBefore(sid)[c]) \cup {"otp"}
                ELSE sessions'[sid].extracted_intelligence[c] = IntelligenceBefore(sid)[c]]_vars

\* a session that received only the protective-advice message, without history
C6_Witness ==
    \E s \in DOMAIN sessions :
        /\ sessions[s].messages = <<[sender |-> "scammer", text |-> T_advice]>>
        /\ supplied[s] = {T_advice}
        /\ sessions[s].extracted_intelligence.suspiciousKeywords = <<"otp">>

\* a message request for session sid takes a step
IsRequest(sid) ==
    \E text \in RequestTexts, history \in Histories, ep \in Endpoints :
        Request(sid, text, history, ep)

\* C7 as stated: the stored confidence of a session never decreases.
C7_ConfidenceNeverDecreases ==
    [][\A s \in SessionIds :
          (Exists(sessions, s) /\ Exists(sessions', s))
              => sessions'[s].scam_confidence >= sessions[s].scam_confidence]_vars

\* C7 amended: the stored confidence of a session changes only in a message
\* request, and the request stores a value not below the previous one exactly
\* when its own min(cumulative score / 10, 1) is not below it.
C7_ConfidenceFollowsRequest ==
    [][\A s \in SessionIds :
          (Exists(sessions, s) /\ Exists(sessions', s)) =>
             IF IsRequest(s)
             THEN \A text \in RequestTexts, history \in Histories, ep \in Endpoints :
                     Request(s, text, history, ep) =>
                        (sessions'[s].scam_confidence >= sessions[s].scam_confidence
                           <=> Min(cumulative_score(detect(text, history).score, history), 1000)
                                  >= sessions[s].scam_confidence)
             ELSE sessions'[s].scam_confidence = sessions[s].scam_confidence]_vars

\* the positions of the detection notes of a session
DetectionNotes(s) ==
    {k \in 1..Len(sessions[s].agent_notes) : sessions[s].agent_notes[k].kind = "detection"}

\* a session whose latest request stored a lower confidence than an earlier one
C7_Witness ==
    \E s \in DOMAIN sessions : \E i, j \in DetectionNotes(s) :
        /\ i < j
        /\ \A k \in DetectionNotes(s) : k <= j
        /\ sessions[s].agent_notes[j].cumulative < sessions[s].agent_notes[i].cumulative
        /\ sessions[s].agent_notes[j].cumulative < 1000
        /\ sessions[s].scam_confidence = sessions[s].agent_notes[j].cumulative

\* C8: after every step the stored confidence of every session lies in [0, 1]
\* (0..1000 thousandths), and a message request stores min(cumulative / 10, 1):
\* the cumulative score where it is at most 10, and 1 above that.
C8_ConfidenceIsCappedCumulative ==
    [][/\ \A s \in SessionIds :
             Exists(sessions', s) => sessions'[s].scam_confidence \in 0..1000
       /\ \A sid \in SessionIds, text \in RequestTexts, history \in Histories, ep \in Endpoints :
             Request(sid, text, history, ep) =>
                sessions'[sid].scam_confidence =
                   (IF cumulative_score(detect(text, history).score, history) > 1000
                    THEN 1000
                    ELSE cumulative_score(detect(text, history).score, history))]_vars

\* a session whose only request had a cumulative score above 10
C8_Witness ==
    \E s \in DOMAIN sessions :
        /\ Len(sessions[s].agent_notes) = 1
        /\ sessions[s].agent_notes[1].cumulative > 1000
        /\ sessions[s].scam_confidence = 1000

\* a message request for session s comes to its end in this step
MessageRequestEnds(s) ==
    \/ IsRequest(s) /\ inflight' = inflight
    \/ \E i \in 1..Len(inflight) : inflight[i].sid = s /\ ResumeMessage(i)

\* C9 as stated: when a message request ends and the session holds at least
\* max_engagement_messages messages, or is older than the timeout, the session
\* is completed, whether or not it is flagged as a scam.
C9_CompletedAtCapOrTimeout ==
    [][\A s \in SessionIds :
          (/\ MessageRequestEnds(s)
           /\ Exists(sessions', s)
           /\ \/ Len(sessions'[s].messages) >= max_engagement_messages
              \/ Expired(sessions'[s], now'))
              => sessions'[s].is_completed]_vars

\* C10: while a session record exists a true is_completed flag stays true in
\* every step; completing a session twice gives the store that completing it
\* once gives; and the completion endpoint leaves a completed session and its
\* callbacks as they are.
C10_CompletionIsTerminal ==
    [][\A s \in SessionIds :
          /\ (Exists(sessions, s) /\ Exists(sessions', s) /\ sessions[s].is_completed)
                => sessions'[s].is_completed
          /\ Exists(sessions', s) =>
                complete_session(complete_session(sessions', s), s)
                    = complete_session(sessions', s)
          /\ (Exists(sessions, s) /\ sessions[s].is_completed /\ CompleteSession(s))
                => (sessions' = sessions /\ callbacks' = callbacks)]_vars

\* a completed session, its callback scheduled, on which a request is still running
C10_Witness ==
    \E s \in DOMAIN sessions :
        /\ sessions[s].is_completed
        /\ callbacks[s] >= 1
        /\ \E i \in 1..Len(inflight) : inflight[i].sid = s

\* after differs from before at most in the is_completed field of session s
SameButCompletion(before, after, s) ==
    /\ DOMAIN after = DOMAIN before
    /\ \A r \in DOMAIN before \ {s} : after[r] = before[r]
    /\ \A f \in DOMAIN before[s] \ {"is_completed"} : after[s][f] = before[s][f]

\* C11: complete_session on an existing session sets is_completed and leaves
\* scam_detected, scam_confidence, extracted_intelligence, messages, agent_notes,
\* persona and every other session as they were, in the completion endpoint and
\* on every record the program reaches; the same holds of get_session, which
\* sets is_completed on an expired session and changes nothing otherwise.
C11_CompletionChangesOnlyIsCompleted ==
    [][\A s \in SessionIds :
          /\ Exists(sessions', s) =>
                /\ SameButCompletion(sessions', complete_session(sessions', s), s)
                /\ complete_session(sessions', s)[s].is_completed
                /\ \A t \in {now', now' + TickMinutes} :
                      /\ SameButCompletion(sessions', get_session(sessions', s, t), s)
                      /\ get_session(sessions', s, t)[s].is_completed
                            = (sessions'[s].is_completed \/ Expired(sessions'[s], t))
          /\ (Exists(sessions, s) /\ CompleteSession(s)) =>
                /\ SameButCompletion(sessions, sessions', s)
                /\ sessions'[s].is_completed]_vars

\* a session completed before its timeout that is flagged and holds a confidence,
\* a persona, notes and intelligence
C11_Witness ==
    \E s \in DOMAIN sessions :
        /\ sessions[s].is_completed
        /\ ~Expired(sessions[s], now)
        /\ sessions[s].scam_detected
        /\ sessions[s].scam_confidence > 0
        /\ sessions[s].persona # ""
        /\ sessions[s].agent_notes # <<>>
        /\ sessions[s].extracted_intelligence.upiIds # <<>>

\* C12 as stated: a message request for a completed session changes neither its
\* scam_detected flag nor its scam_confidence.
C12_ClassificationFrozenWhenCompleted ==
    [][\A s \in SessionIds :
          (Exists(sessions, s) /\ sessions[s].is_completed /\ IsRequest(s)) =>
             /\ sessions'[s].scam_detected = sessions[s].scam_detected
             /\ sessions'[s].scam_confidence = sessions[s].scam_confidence]_vars

\* session ids that are in no store: those not in use and one that never is
AbsentIds(store) == (SessionIds \cup {"s0"}) \ DOMAIN store

\* argument lists update_session is called with
SomeUpdates ==
    {[new_message |-> [sender |-> "user", text |-> AgentReply], agent_note |-> AgentNote],
     [scam_detected |-> TRUE, scam_confidence |-> 1000],
     [intelligence |-> ExtractTable[T_scam]],
     [is_completed |-> TRUE]}

\* C13: update_session and complete_session called with a session id that is not
\* in the store raise and return the store as it was (no session created, none
\* modified); a request that resumes after its session was deleted ends with
\* status 500 and leaves the store and the callbacks as they were.
C13_UnknownSessionRaises ==
    [][/\ \A sid \in AbsentIds(sessions') :
             /\ update_session_raises(sessions', sid)
             /\ complete_session(sessions', sid) = sessions'
             /\ \A upd \in SomeUpdates : update_session(sessions', sid, upd) = sessions'
       /\ \A i \in 1..Len(inflight) :
             (ResumeMessage(i) /\ ~Exists(sessions, inflight[i].sid)) =>
                (status' = 500 /\ sessions' = sessions /\ callbacks' = callbacks)]_vars

\* a request whose session was deleted while it was suspended has ended with
\* status 500, and the session is not in the store
C13_Witness ==
    /\ status = 500
    /\ AbsentIds(sessions) \cap SessionIds # {}
    /\ inflight = <<>>

IsPrefix(p, q) == Len(p) <= Len(q) /\ SubSeq(q, 1, Len(p)) = p

\* the step stores one message in session s: a message request stores the
\* incoming message, a resumed request the reply
StoresMessage(s) ==
    \/ IsRequest(s)
    \/ \E i \in 1..Len(inflight) : inflight[i].sid = s /\ ResumeMessage(i)

\* argument lists of update_session calls that append a message and merge
\* intelligence
AppendingUpdates ==
    {[new_message |-> [sender |-> "scammer", text |-> t], intelligence |-> ExtractTable[t]] :
        t \in {T_scam, T_kyc}}

\* C15: with several requests for one session under way, every step keeps the
\* messages stored before it as a prefix, stores exactly one message when it
\* is a step of a request that stores one and none otherwise, and keeps every
\* intelligence entry; a request's extraction is in the record after its step;
\* and two update_session calls applied one after the other to a reachable
\* record, in either order, leave both messages once each and every entry of
\* both intelligence sets.
C15_NoUpdateLost ==
    [][\A s \in SessionIds :
          /\ (Exists(sessions, s) /\ Exists(sessions', s)) =>
                /\ IsPrefix(sessions[s].messages, sessions'[s].messages)
                /\ \A c \in Categories :
                      SeqToSet(sessions[s].extracted_intelligence[c])
                          \subseteq SeqToSet(sessions'[s].extracted_intelligence[c])
                /\ Len(sessions'[s].messages) - Len(sessions[s].messages)
                      = (IF StoresMessage(s) THEN 1 ELSE 0)
          /\ \A text \in RequestTexts, history \in Histories, ep \in Endpoints :
                Request(s, text, history, ep) =>
                   \A c \in Categories :
                      ExtractedFrom({text} \cup SeqToSet(history), c)
                          \subseteq SeqToSet(sessions'[s].extracted_intelligence[c])
          /\ Exists(sessions', s) =>
                \A u1, u2 \in AppendingUpdates :
                   \A both \in {update_session(update_session(sessions', s, u1), s, u2)[s]} :
                       /\ both.messages
                             = sessions'[s].messages \o <<u1.new_message, u2.new_message>>
                       /\ \A c \in Categories :
                             SeqToSet(sessions'[s].extracted_intelligence[c])
                                 \cup SeqToSet(u1.intelligence[c])
                                 \cup SeqToSet(u2.intelligence[c])
                               \subseteq SeqToSet(both.extracted_intelligence[c])]_vars

\* two requests for one session overlapped and both have ended: the session
\* holds both incoming messages, then both replies, and what both extracted
C15_Witness ==
    \E s \in DOMAIN sessions :
        /\ Len(sessions[s].messages) = 4
        /\ sessions[s].messages[1].sender = "scammer"
        /\ sessions[s].messages[2].sender = "scammer"
        /\ sessions[s].messages[1].text # sessions[s].messages[2].text
        /\ sessions[s].messages[3].sender = "user"
        /\ sessions[s].messages[4].sender = "user"
        /\ inflight = <<>>
        /\ \A c \in Categories :
              ExtractedFrom(CurrentTexts(s), c)
                  \subseteq SeqToSet(sessions[s].extracted_intelligence[c])

\* the texts of the incoming messages stored for the session a request finds
IncomingBefore(sid) ==
    IF Exists(sessions, sid)
    THEN [i \in 1..Len(SelectSeq(sessions[sid].messages, LAMBDA m : m.sender = "scammer")) |->
             SelectSeq(sessions[sid].messages, LAMBDA m : m.sender = "scammer")[i].text]
    ELSE <<>>

\* the detection note a message request has written (the last note of the record)
NoteWritten(sid) == sessions'[sid].agent_notes[Len(sessions'[sid].agent_notes)]

\* C16 as stated: the risk score a request records for a message that is not
\* the first of its session is the detector's score of the message against a
\* history that includes the session's preceding incoming message (that message
\* alone, the stored incoming messages, or conversationHistory followed by it).
C16_ScoredAgainstPrecedingMessage ==
    [][\A sid \in SessionIds, text \in RequestTexts, history \in Histories, ep \in Endpoints :
          (Request(sid, text, history, ep) /\ IncomingBefore(sid) # <<>>) =>
             \E h \in {<<IncomingBefore(sid)[Len(IncomingBefore(sid))]>>,
                       IncomingBefore(sid),
                       Append(history, IncomingBefore(sid)[Len(IncomingBefore(sid))])} :
                NoteWritten(sid).risk = detect(text, h).score]_vars

\* C16 amended: a message request appends its message behind the messages stored
\* on its arrival, and the scores it records are those of its message against
\* the conversationHistory it supplies, whatever the session holds: "Kindly
\* verify your kyc" scores 4.0 with cumulative score 4.0 when the history is
\* empty, and cumulative score 7.0 (4.0 + 0.3 * 10.0) when the history is the
\* scam text.
C16_ScoredAgainstSuppliedHistory ==
    [][\A sid \in SessionIds, text \in RequestTexts, history \in Histories, ep \in Endpoints :
          Request(sid, text, history, ep) =>
             /\ sessions'[sid].messages
                   = (IF Exists(sessions, sid) THEN sessions[sid].messages ELSE <<>>)
                        \o <<[sender |-> "scammer", text |-> text]>>
             /\ NoteWritten(sid).kind = "detection"
             /\ NoteWritten(sid).risk = detect(text, history).score
             /\ NoteWritten(sid).cumulative
                   = cumulative_score(detect(text, history).score, history)
             /\ text = T_kyc =>
                   /\ NoteWritten(sid).risk = 400
                   /\ NoteWritten(sid).cumulative = (IF history = <<>> THEN 400 ELSE 700)]_vars

\* the protective-advice text was stored first and the kyc text, sent with an
\* empty history, after it: the score recorded last is below the score of the
\* kyc text against a history holding the advice text
C16_Witness ==
    \E s \in DOMAIN sessions :
        /\ Len(sessions[s].messages) >= 2
        /\ sessions[s].messages[1] = [sender |-> "scammer", text |-> T_advice]
        /\ sessions[s].messages[2] = [sender |-> "scammer", text |-> T_kyc]
        /\ DetectionNotes(s) # {}
        /\ \E j \in DetectionNotes(s) :
              /\ \A k \in DetectionNotes(s) : k <= j
              /\ sessions[s].agent_notes[j].cumulative = sessions[s].agent_notes[j].risk
              /\ sessions[s].agent_notes[j].risk < detect(T_kyc, <<T_advice>>).score

\* C17 as stated: whatever runs between the steps of a request, the flag observed
\* for its session id does not go from true to false: while a request that has
\* stored the flag as true is suspended, a record found under its session id is
\* flagged.
C17_FlagKeptWhileInFlight ==
    \A i \in 1..Len(inflight) :
        (inflight[i].is_scam /\ Exists(sessions, inflight[i].sid))
            => sessions[inflight[i].sid].scam_detected

\* C17 amended: deletion and the clean-up at shutdown remove a record whole, a
\* request that resumes without its record leaves the store as it is, and a
\* record made under a used id starts afresh with its first message; as long as
\* a record exists, no step clears its flag or drops an intelligence entry, and
\* its lists hold no entry twice.
C17_RecordsIntactUntilRemoved ==
    [][\A s \in SessionIds :
          /\ (Exists(sessions, s) /\ Exists(sessions', s)) =>
                /\ sessions[s].scam_detected => sessions'[s].scam_detected
                /\ \A c \in Categories :
                      /\ SeqToSet(sessions[s].extracted_intelligence[c])
                            \subseteq SeqToSet(sessions'[s].extracted_intelligence[c])
                      /\ NoDuplicates(sessions'[s].extracted_intelligence[c])
          /\ (Exists(sessions, s) /\ ~Exists(sessions', s)) =>
                /\ DeleteSession(s) \/ Shutdown
                /\ \A r \in DOMAIN sessions' : sessions'[r] = sessions[r]
          /\ \A i \in 1..Len(inflight) :
                (inflight[i].sid = s /\ ~Exists(sessions, s) /\ ResumeMessage(i))
                    => sessions' = sessions
          /\ (~Exists(sessions, s) /\ Exists(sessions', s)) =>
                /\ Len(sessions'[s].messages) = 1
                /\ IsRequest(s)
                /\ \A c \in Categories :
                      /\ SeqToSet(sessions'[s].extracted_intelligence[c]) = ExtractedFrom(supplied'[s], c)
                      /\ NoDuplicates(sessions'[s].extracted_intelligence[c])]_vars

\* a request outlived its record: the session was deleted and made again by a
\* message that is no scam, and the reply of the earlier request was stored in
\* the new, unflagged record
C17_Witness ==
    \E s \in DOMAIN sessions :
        /\ ~sessions[s].scam_detected
        /\ \E k \in 1..Len(sessions[s].messages) : sessions[s].messages[k].sender = "user"

\* the clean-up at shutdown removed a flagged record
C17_CleanupWitness ==
    /\ ~serving
    /\ sessions = <<>>
    /\ callbacks["s1"] >= 1

\* the keys the handlers use for behaviour engines, and one that is never used
EngineKeys == SessionIds \cup {TimestampKey}
UnusedKey == "s0"

\* C14 as stated: an update for a key that has no behaviour engine creates none
\* (it is refused as a caller error).
C14_UnknownEngineRefused ==
    [][\A k \in EngineKeys : k \notin DOMAIN engines => k \notin DOMAIN engines']_vars

\* C14 amended: get_behavior_engine called with a key that has no engine adds a
\* new engine (all trackers at their initial values) under that key, leaves the
\* other engines as they are, and raises nothing; with a key that has one it
\* changes nothing.  A request that makes the first update for its session id
\* ends with status 200, and the engine then holds exactly that one update.
C14_EngineCreatedOnFirstUse ==
    [][/\ \A k \in EngineKeys \cup {UnusedKey} :
             IF k \in DOMAIN engines'
             THEN get_behavior_engine(engines', k) = engines'
             ELSE /\ DOMAIN get_behavior_engine(engines', k) = DOMAIN engines' \cup {k}
                  /\ get_behavior_engine(engines', k)[k] = NewBehaviorEngine
                  /\ \A j \in DOMAIN engines' : get_behavior_engine(engines', k)[j] = engines'[j]
       /\ \A k \in EngineKeys :
             (k \notin DOMAIN engines /\ k \in DOMAIN engines') =>
                /\ engines'[k].intent_tracker._turn_count = 1
                /\ Len(engines'[k].escalation_analyzer._history) = 1
                /\ Len(engines'[k].aggression_analyzer._scores) = 1
                /\ k \in SessionIds => status' = 200]_vars

\* the first request for a session id has ended with status 200 and the engine
\* made for the id holds its one update
C14_Witness ==
    /\ status = 200
    /\ \E s \in SessionIds :
          /\ s \in DOMAIN engines
          /\ engines[s].intent_tracker._turn_count = 1
          /\ Exists(sessions, s)
          /\ Len(sessions[s].messages) = 1

\* C18 as stated: the engine kept under a session id gets exactly one update in
\* a step that ends a message request for that session with a response, on
\* either endpoint, and none in any other step.
C18_OneUpdatePerAdversaryMessage ==
    [][\A s \in SessionIds :
          Turns(engines', s)
              = Turns(engines, s) + (IF MessageRequestEnds(s) /\ status' = 200 THEN 1 ELSE 0)]_vars

\* C19: IntentTracker.update. The first update after creation or after a reset
\* sets the confidence to the boosted, clamped, normalised score; every later
\* update sets it to 0.7 * prior + 0.3 * that value; the confidence stays within
\* [0, 1] for every score >= 0 (scores above 10 included) and signal count >= 0.
C19_FirstSetsLaterSmooths ==
    /\ i_tracker._confidence \in 0..CONF_ONE
    /\ i_last.op = "reset" => i_tracker = NewIntentTracker
    /\ i_last.op = "update" =>
          \A target \in {Boosted(i_last.scam_score, i_last.signal_count, i_last.flags.has_otp,
                                 i_last.flags.has_upi, i_last.flags.has_threat,
                                 i_last.flags.has_urgency)} :
              /\ target \in 0..CONF_ONE
              /\ target >= Min(CONF_ONE, Normalized(i_last.scam_score))
              /\ i_tracker._turn_count = i_last.found._turn_count + 1
              /\ i_last.found._turn_count = 0 => i_tracker._confidence = target
              /\ i_last.found._turn_count > 0 =>
                    10 * i_tracker._confidence = 7 * i_last.found._confidence + 3 * target

\* a reset tracker has taken a first update with a score above 10 and then a
\* later one that pulled the confidence down from 1
C19_Witness ==
    /\ i_last.op = "update"
    /\ i_last.resets = 1
    /\ i_last.found._turn_count = 1
    /\ i_last.found._confidence = CONF_ONE
    /\ i_last.scam_score = 0
    /\ i_last.signal_count = 3
    /\ ~i_last.flags.has_otp
    /\ i_tracker._confidence = 71800000

\* the level of the analysed message that precedes, in session s, the one being
\* analysed: 0 when the session record is only now being created (its first
\* message) or nothing has been analysed under the id
PrecedingLevel(s) ==
    IF ~Exists(sessions, s) \/ Turns(engines, s) = 0
    THEN LEVEL_GREETING
    ELSE engines[s].escalation_analyzer._history[Len(engines[s].escalation_analyzer._history)]

\* the step is one that analyses this text for session s: a request that ends at
\* once, or one that resumes
Analyses(s, text) ==
    \/ /\ IsRequest(s)
       /\ sessions'[s].messages[Len(sessions'[s].messages)].text = text
    \/ \E i \in 1..Len(inflight) :
          inflight[i].sid = s /\ inflight[i].text = text /\ ResumeMessage(i)

\* C20 as stated: whenever a message is analysed for a session, the published
\* escalation_rate is the level of that message minus the level of the analysed
\* message before it in the same session, and the level minus 0 for the first
\* message of a session.
C20_RateAgainstPrecedingMessage ==
    [][\A s \in SessionIds :
          Turns(engines', s) = Turns(engines, s) + 1 =>
              \E text \in RequestTexts :
                  /\ Analyses(s, text)
                  /\ engines'[s]._metrics.escalation_rate = LevelTable[text] - PrecedingLevel(s)]_vars

\* the last n entries of a sequence (all of it when it has fewer)
LastOf(seq, n) == SubSeq(seq, Max(1, Len(seq) - n + 1), Len(seq))

\* sums over a sequence of scores ys taken at x = 0, 1, ...
SumY(ys) == SumEnumerate(LAMBDA i, y : y, ys, 1)
SumX(ys) == SumEnumerate(LAMBDA i, y : i, ys, 1)
SumXY(ys) == SumEnumerate(LAMBDA i, y : i * y, ys, 1)
SumXX(ys) == SumEnumerate(LAMBDA i, y : i * i, ys, 1)

\* C21: aggression_slope is 0.0 while fewer than 2 turns have been analysed;
\* otherwise it is the least-squares slope b = (n Sxy - Sx Sy) / (n Sxx - Sx Sx)
\* of the at most 5 most recent scores against their index (rounded to three
\* places), whatever was analysed before them; for the most recent scores
\* 0, 1, 2, 3, 4 it is 1.0.
C21_SlopeOverLastFive ==
    /\ Len(a_fed) < 2 => aggression_slope(a_analyzer) = 0
    /\ Len(a_fed) >= 2 =>
          \A ys \in {LastOf(a_fed, WINDOW_SIZE)} :
              \* scores in halves, slope in thousandths: 1000 * b / 2
              aggression_slope(a_analyzer)
                  = RoundMilli(Len(ys) * SumXY(ys) - SumX(ys) * SumY(ys),
                               2 * (Len(ys) * SumXX(ys) - SumX(ys) * SumX(ys)))
    /\ LastOf(a_fed, WINDOW_SIZE) = <<0, 2, 4, 6, 8>> => aggression_slope(a_analyzer) = 1000

\* a score of 4 has dropped out of the window, and the scores 0, 1, 2, 3, 4
\* that followed it give the slope 1.0
C21_Witness ==
    /\ a_fed = <<8, 0, 2, 4, 6, 8>>
    /\ a_analyzer._scores = <<0, 2, 4, 6, 8>>
    /\ aggression_slope(a_analyzer) = 1000

\* C22: a process_reply call with apply_delay = False ends in the step it is
\* made in, with no call left waiting, and its metrics hold the delay computed
\* for the reply, rounded to hundredths; a call with apply_delay = True is
\* left waiting in asyncio.sleep for the computed delay and publishes nothing
\* before the wait is over; every computed delay is base + len(reply) *
\* char_delay + variation brought into [0.5, 5.0] seconds, and the delay in the
\* metrics is never outside [0.5, 5.0] once one has been recorded.
C22_DelayComputedWithoutWaiting ==
    [][/\ p_engine'._metrics.delay_applied \in {0} \cup (DELAY_MIN \div 10)..(DELAY_MAX \div 10)
       /\ \A reply \in ReplyTexts, scammer_msg \in ReplyMessages, apply_delay \in BOOLEAN,
             base \in BaseDraws, char_delay \in CharDraws, variation \in VariationDraws :
             ProcessReply(reply, scammer_msg, apply_delay, base, char_delay, variation) =>
                \A raw \in {base + Len(reply) * char_delay + variation} :
                \A delay \in {IF raw < 500 THEN 500 ELSE IF raw > 5000 THEN 5000 ELSE raw} :
                   /\ p_engine'._last_delay \in {delay \div 10, delay \div 10 + 1}
                   /\ p_engine'._last_delay \in 50..500
                   /\ ~apply_delay =>
                         /\ p_calls' = p_calls
                         /\ p_engine'._metrics.delay_applied = p_engine'._last_delay
                   /\ apply_delay =>
                         /\ Len(p_calls') = Len(p_calls) + 1
                         /\ p_calls'[Len(p_calls')].sleep = delay
                         /\ p_engine'._metrics = p_engine._metrics]_vars

\* one call is waiting for 5.0 seconds while another, made after it, has ended
\* and recorded a delay of 0.6 seconds
C22_Witness ==
    /\ Len(p_calls) = 1
    /\ p_calls[1].sleep = DELAY_MAX
    /\ p_engine.intent_tracker._turn_count = 2
    /\ p_engine._metrics.delay_applied = 60
    /\ p_engine._metrics.confidence > 0

\* the text ends with the digits d
EndsWith(text, d) == Len(text) >= Len(d) /\ SubSeq(text, Len(text) - Len(d) + 1, Len(text)) = d

\* C23: every form of a 10-digit number d that starts with 6 to 9 (d, 91d,
\* +91d, +91 d, +91-d) is normalised to "+91" followed by d, normalising again
\* changes nothing, and once a message with any form of d has been processed
\* for a session, its phoneNumbers holds exactly one entry for d, "+91" d,
\* however many forms of d were processed.
C23_OneEntryPerNumber ==
    \A d \in PhoneNumbers :
        /\ \A form \in PhoneForms(d) :
              /\ _clean_phone_number(form) = "+91" \o d
              /\ _clean_phone_number(_clean_phone_number(form)) = _clean_phone_number(form)
        /\ (\E i \in 1..Len(n_sent) : \E form \in PhoneForms(d) : n_sent[i] = PhoneMessage(form)) =>
              \A phones \in {n_store["s1"].extracted_intelligence.phoneNumbers} :
                  /\ {i \in 1..Len(phones) : EndsWith(phones[i], d)}
                        = {i \in 1..Len(phones) : phones[i] = "+91" \o d}
                  /\ Cardinality({i \in 1..Len(phones) : EndsWith(phones[i], d)}) = 1

\* the bare number and its +91 form with a dash were processed, and the session
\* holds the one entry
C23_Witness ==
    /\ n_sent = <<PhoneMessage("9876543210"), PhoneMessage("+91-9876543210")>>
    /\ n_store["s1"].extracted_intelligence.phoneNumbers = <<"+919876543210">>

\* the scores dictionary of detect when it comes to the final scoring or
\* returns early: every layer starts at 0.0, and the layers are run only when
\* the safety pre-check does not return
LayerScores(text, history) ==
    IF LayerTable[text].safety
    THEN [structural |-> 0, linguistic |-> 0, contextual |-> 0, semantic |-> 0, history |-> 0]
    ELSE [structural |-> LayerTable[text].structural.score,
          linguistic |-> LayerTable[text].linguistic.score,
          contextual |-> LayerTable[text].contextual.score,
          semantic |-> LayerTable[text].semantic.score,
          history |-> _history_score(history).score]

\* C24: for every text and history, the total score detect returns is the sum
\* of the structural, linguistic, contextual, semantic and history layer
\* scores (each 0 when the layers are not run) brought into [0, 10], and the
\* decision it returns is true exactly when that total is at least 6.0.
C24_TotalIsClampedSum ==
    d_result.applied =>
        \A sc \in {LayerScores(d_text, d_history)} :
        \A sum \in {sc.structural + sc.linguistic + sc.contextual + sc.semantic + sc.history} :
            /\ sum >= 0
            /\ d_result.score = (IF sum > 1000 THEN 1000 ELSE sum)
            /\ d_result.is_scam <=> (d_result.score >= 600)

\* a text and a history whose layers add up to more than 10: the total is 10.0
\* and the decision is true
C24_Witness ==
    /\ d_result.applied
    /\ \E sc \in {LayerScores(d_text, d_history)} :
          /\ sc.structural + sc.linguistic + sc.contextual + sc.semantic + sc.history > 1000
          /\ sc.history > 0
    /\ d_result.score = 1000
    /\ d_result.is_scam

\* C25 as stated: when a /api/honeypot request whose message was classified as
\* a scam ends, the body of its response has status "success", scamDetected
\* true and a field agentResponse.
C25_AgentResponsePresent ==
    [][\A i \in 1..Len(inflight) :
          (ResumeMessage(i) /\ inflight[i].ep = "honeypot" /\ inflight[i].is_scam) =>
              /\ {"status", "scamDetected", "agentResponse"} \subseteq DOMAIN response'
              /\ response'.status = "success"
              /\ response'.scamDetected]_vars

\* the risk score of the history texts scored alone, with an empty history
\* (4.0 and 10.0), times 0.3
SoloWeighted == (T_kyc :> 120) @@ (T_pay :> 300)

\* C26: the cumulative score is the risk score of the current message (scored
\* with the whole supplied history) plus 0.3 times the risk score, taken with
\* an empty history, of each of the last 5 supplied history texts at most;
\* texts before the last 5 add nothing.
C26_CumulativeOverLastFive ==
    c_cumulative # -1 =>
        /\ d_result.applied
        /\ c_cumulative
              = d_result.score
                + SumEnumerate(LAMBDA i, h : SoloWeighted[h], LastOf(d_history, 5), 1)
        /\ Len(d_history) > 5 =>
              c_cumulative - d_result.score
                  = cumulative_score(0, SubSeq(d_history, Len(d_history) - 4, Len(d_history)))

\* a history of six texts whose first scores 10.0 alone: the five texts after
\* it add 5 * 1.2 to the risk score of the message, and the first adds nothing
C26_Witness ==
    /\ d_history = <<T_pay, T_kyc, T_kyc, T_kyc, T_kyc, T_kyc>>
    /\ d_text = T_hello
    /\ d_result.applied
    /\ c_cumulative = d_result.score + 600

\* C27 as stated: after every call of EscalationAnalyzer.analyze the value the
\* call returned equals the property escalation_rate read right after it (the
\* level change from the previous turn).
C27_ReturnEqualsRateProperty ==
    Len(e_analyzer._history) > 0 => e_returned = escalation_rate(e_analyzer)

\* C28 as stated: once a message request has completed a session and scheduled
\* its final-result callback, no later message request for the session
\* schedules the callback again.
C28_CallbackScheduledOnce ==
    [][\A s \in SessionIds :
          (/\ Exists(sessions, s)
           /\ sessions[s].is_completed
           /\ callbacks[s] >= 1
           /\ StoresMessage(s))
              => callbacks'[s] = callbacks[s]]_vars

\* C29: a get_or_create_session call for an id that has a record returns that
\* record and leaves the store as get_session leaves it, so of two requests
\* for the same new id, interleaved in any way, the first creates the record
\* and the second works on it: no step replaces an existing record by a fresh
\* one, and the messages and the scam flag written to it are kept.
C29_ExistingRecordKept ==
    [][\A s \in SessionIds :
          Exists(sessions, s) =>
              /\ get_or_create_session(sessions, s, now) = get_session(sessions, s, now)
              /\ get_or_create_session(sessions, s, now)[s].messages = sessions[s].messages
              /\ Exists(sessions', s) =>
                    /\ IsPrefix(sessions[s].messages, sessions'[s].messages)
                    /\ sessions'[s].engagement_start = sessions[s].engagement_start
                    /\ sessions[s].scam_detected => sessions'[s].scam_detected]_vars

\* two requests for the same new id are under way at the same time: both
\* messages are in the one record and its scam flag is set
C29_Witness ==
    /\ Len(inflight) = 2
    /\ inflight[1].sid = inflight[2].sid
    /\ Exists(sessions, inflight[1].sid)
    /\ Len(sessions[inflight[1].sid].messages) = 2
    /\ \A k \in 1..2 : sessions[inflight[1].sid].messages[k].sender = "scammer"
    /\ sessions[inflight[1].sid].scam_detected

\* C30 as stated: the metrics a process_reply call publishes are the snapshot of
\* the trackers as that call's own update left them, also when the call waited
\* (apply_delay = True) and another call on the engine came in between.
C30_SnapshotOfOwnUpdate ==
    [][\A i \in 1..Len(p_calls) :
          WakeReply(i) => p_engine'._metrics = p_calls[i].own]_vars
=============================================================================
